---- MODULE Spec2Model ----
(***************************************************************************)
(* A model of composer-io: the continuation dispatcher (compose), the      *)
(* helpers, the snippets and the Composer builder, run on a model of the   *)
(* host's call stack, promises, microtask queue and timer queue.           *)
(*                                                                         *)
(* A middleware value is a term (a record with a kind k).  A function      *)
(* invocation is an activation: an entry of acts.  An async function's     *)
(* activation is also its promise (st is pending "run"/"wait", fulfilled   *)
(* "ok" or rejected "err").  stack is the synchronous call stack, mq the   *)
(* microtask queue (activations to resume), tq the timer queue.            *)
(***************************************************************************)
EXTENDS Integers, Sequences, FiniteSets, TLC

VARIABLES
  builders,   \* Composer instances: builders[b] is the handler field of b
  args,       \* the arguments of the direct compose(...) call
  composed,   \* what that call gave: None before it, a handler, or TypeError
  next,       \* the terminal continuation the caller passes
  acts,       \* the activations (and promises) of the current invocation
  stack,      \* the call stack: ids of acts, the last one is running
  mq,         \* the microtask queue: ids of acts to resume, in order
  tq,         \* the timer queue: ids of acts waiting for setTimeout
  log,        \* what the stages, factories and handlers observed
  result,     \* what the invocation returned to its caller
  phase,      \* "build" | "run" | "idle"
  runs,       \* number of invocations finished
  made,       \* number of stage functions created so far
  ops,        \* number of builder methods called so far
  count       \* the counter a predicate or router closes over

vars == <<builders, args, composed, next, acts, stack, mq, tq, log, result,
          phase, runs, made, ops, count>>

---------------------------------------------------------------------------
(* Bounds *)

MaxStages == 3
MaxOps == 2
MaxRuns == 2
\* the stages a lazy factory returns
MaxLazy == 2
\* the keys of a route table
NKeys == 2
\* the stages given to fork, concurrency, errorBoundary
MaxSub == 2
\* the invocations of one built composer
MaxInvocations == 9

---------------------------------------------------------------------------
(* Middleware values *)

T(k, id, b, xs, ys, zs) ==
  [k |-> k, id |-> id, b |-> b, xs |-> xs, ys |-> ys, zs |-> zs]

\* a user's stage number id behaving as b
Stage(id, b) == T("stage", id, b, <<>>, <<>>, <<>>)
\* a value that is no function and has no middleware property
Value(id) == T("value", id, "", <<>>, <<>>, <<>>)
\* a Composer instance used as a middleware (MiddlewareObj)
Obj(b) == T("obj", b, "", <<>>, <<>>, <<>>)
None == T("none", 0, "", <<>>, <<>>, <<>>)

\* other values: what a function returns, a promise holds, a throw carries
Und == T("undefined", 0, "", <<>>, <<>>, <<>>)
Bool(x) == T("boolean", 0, IF x THEN "true" ELSE "false", <<>>, <<>>, <<>>)
\* the Error stage id throws
Err(id) == T("Error", id, "evil", <<>>, <<>>, <<>>)
Multi == T("Error", 0, "next() called multiple times", <<>>, <<>>, <<>>)
TypeError == T("TypeError", 0, "Middleware must be composed of function!",
               <<>>, <<>>, <<>>)

Null == T("null", 0, "", <<>>, <<>>, <<>>)
\* an array of middleware values
Arr(items) == T("array", 0, "", items, <<>>, <<>>)
\* a property key (of a route table)
Key(k) == T("key", k, "", <<>>, <<>>, <<>>)

skipMiddleware == T("skip", 0, "", <<>>, <<>>, <<>>)
stopMiddlewareContinues == skipMiddleware
stopMiddleware == T("stop", 0, "", <<>>, <<>>, <<>>)

\* typeof middleware === 'function'
IsFunction(h) ==
  h.k \in {"stage", "skip", "stop", "compose", "lazy", "tap", "fork", "before",
           "after", "enforce", "concurrency", "caught", "boundary"}

assertMiddlewaresFirstOnly(ms) == Len(ms) = 0 \/ IsFunction(ms[1])
assertMiddlewares(ms) == \A i \in 1..Len(ms) : IsFunction(ms[i])

\* compose(...middlewares): the composed handler, or the TypeError thrown
compose(ms) ==
  IF assertMiddlewares(ms)
    THEN T("compose", 0, "", ms, <<>>, <<>>)
    ELSE TypeError

\* composer.middleware, read when the sub-chain of composer c has no stage yet
\* and kept from then on
middlewareWhenMade(bs, c) == skipMiddleware

\* get middleware() of composer c: the handler it has at the time of the read
getMiddleware(bs, c) == bs[c]

\* flattenMiddleware(mw) with the builders as they are now
flattenMiddleware(bs, mw) ==
  IF IsFunction(mw) THEN mw
  ELSE IF mw.k = "obj" THEN getMiddleware(bs, mw.id)
  ELSE None

\* Array.isArray(middleware) ? middleware : [middleware]
ToArray(v) == IF v.k = "array" THEN v.xs ELSE <<v>>

\* a user's lazy factory number id that returns v
Factory(id, v) == T("factory", id, "user", <<v>>, <<>>, <<>>)
\* a user's condition: a boolean (b is "true"/"false"), or a predicate
\* function: "fnTrue", "fnFalse", or "alt" (count++ % 2 === 0)
Cond(b) == T(IF b \in {"true", "false"} THEN "boolean" ELSE "predicate", 0, b,
             <<>>, <<>>, <<>>)
\* a user's router that returns v (a key, or undefined)
Router(v) == T("router", 0, "", <<v>>, <<>>, <<>>)

getLazyMiddleware(factory) == T("lazy", 0, "", <<factory>>, <<>>, <<>>)

\* getBranchMiddleware(condition, trueMiddleware, falseMiddleware): the factory
getBranchMiddleware(condition, trueMiddleware, falseMiddleware) ==
  T("factory", 0, "branch", <<trueMiddleware>>, <<falseMiddleware>>, <<condition>>)

\* condition ? trueMiddleware : falseMiddleware
BranchPick(c, trueMiddleware, falseMiddleware) ==
  IF c = Bool(TRUE) THEN trueMiddleware ELSE falseMiddleware

\* what the predicate returns on its call number cnt + 1
CondValue(cond, cnt) ==
  CASE cond.b = "fnTrue"  -> Bool(TRUE)
    [] cond.b = "fnFalse" -> Bool(FALSE)
    [] OTHER              -> Bool(cnt % 2 = 0)

\* await condition(ctx): the predicate is called, and counts its calls
EvalConditionMemo(cond, cnt) ==
  [v |-> CondValue(cond, 0), count |-> IF cnt = 0 THEN 1 ELSE cnt,
   called |-> cnt = 0]
EvalCondition(cond, cnt) ==
  [v |-> CondValue(cond, cnt), count |-> cnt + 1, called |-> TRUE]

\* the factory Composer.route gives to lazy
RouteFactory(router, routeHandlers, fallback) ==
  T("factory", 0, "route", routeHandlers, <<fallback>>, <<router>>)

\* routeHandlers[route]
Lookup(routeHandlers, route) ==
  IF route.k = "key" /\ route.id \in 1..Len(routeHandlers)
    THEN routeHandlers[route.id]
    ELSE Und

\* (route === undefined || !routeHandlers[route]
\*    ? fallback : routeHandlers[route]) ?? []
RoutePickNoFallback(route, routeHandlers, fallback) ==
  LET v == IF route = Und THEN fallback ELSE Lookup(routeHandlers, route)
  IN IF v \in {Und, Null} THEN Arr(<<>>) ELSE v
RoutePick(route, routeHandlers, fallback) ==
  LET v == IF route = Und \/ Lookup(routeHandlers, route) = Und
             THEN fallback
             ELSE Lookup(routeHandlers, route)
  IN IF v \in {Und, Null} THEN Arr(<<>>) ELSE v

getTapMiddleware(middleware) == T("tap", 0, "", <<middleware>>, <<>>, <<>>)

getBeforeMiddleware(beforeMiddlewares, middlewares) ==
  T("before", 0, "", beforeMiddlewares, middlewares, <<>>)

getAfterMiddleware(middlewares, afterMiddlewares) ==
  T("after", 0, "", middlewares, afterMiddlewares, <<>>)

getEnforceMiddleware(beforeMiddlewares, middlewares, afterMiddlewares) ==
  T("enforce", 0, "", beforeMiddlewares, middlewares, afterMiddlewares)

getConcurrencyMiddleware(middlewares) ==
  T("concurrency", 0, "", middlewares, <<>>, <<>>)

\* the function fork uses: (ctx, next) => Promise.all([next(),
\* composer.handler(ctx, noopNext)]), composer being builder c
ForkFn(c) == T("fork", c, "", <<>>, <<>>, <<>>)

\* the function errorBoundary uses, composer being builder c
BoundaryFn(c, errorHandler) == T("boundary", c, "", <<errorHandler>>, <<>>, <<>>)

\* a user's error handler (error, next): "swallow" returns, "resume" returns
\* next(), "rethrow" throws the error it got, "raise" throws an error of its
\* own, Err(0)
ErrorHandler(b) == T("handler", 0, b, <<>>, <<>>, <<>>)

\* new BoundaryError(error, ctx), dropping the context
BoundaryErrorNoCtx(error, ctx) == T("BoundaryError", 0, "", <<error>>, <<>>, <<>>)

\* new BoundaryError(error, ctx): the fields error and _ctx
BoundaryError(error, ctx) == T("BoundaryError", ctx, "", <<error>>, <<>>, <<>>)

\* e.error, e.ctx and its alias e.context
ErrorOf(e) == e.xs[1]
CtxOf(e) == e.id
ContextOf(e) == e.id

\* the function caught uses: async (ctx, next) => { try ... catch ... }
CaughtFn(errorHandler) == T("caught", 0, "", <<errorHandler>>, <<>>, <<>>)

\* the error handler given to an enclosing caught or errorBoundary
Enclosing(b) == T("handler", 1, b, <<>>, <<>>, <<>>)

\* new Composer(...middleware): its handler, or the TypeError thrown
ComposerNew(bs, ms) ==
  IF Len(ms) = 0 THEN skipMiddleware
  ELSE compose([i \in 1..Len(ms) |-> flattenMiddleware(bs, ms[i])])

---------------------------------------------------------------------------
(* Stage behaviours: what a user's stage does, as a script *)

Behaviours == {"wrap", "slow", "ret", "stop", "twice", "throwS", "throwA"}

Script(b) ==
  CASE b = "wrap"   -> <<"start", "call", "await", "end">>
    [] b = "ret"    -> <<"start", "call", "ret">>
    [] b = "stop"   -> <<"start">>
    [] b = "twice"  -> <<"start", "call", "await", "call", "await", "end">>
    [] b = "throwS" -> <<"start", "throw">>
    [] b = "throwA" -> <<"start", "tick", "throw">>
    [] b = "fire"   -> <<"start", "call", "end">>
    [] b = "slow"   -> <<"start", "tick", "call", "await", "tick", "end">>
    [] b = "wrapThrow" -> <<"start", "call", "await", "throw">>
    [] b = "late"   -> <<"start", "tick", "mark", "call", "await">>
    [] b = "pause"  -> <<"start", "tick", "end">>
    [] b = "ticks"  -> <<"start", "tick", "mark", "tick", "mark", "tick", "end">>
    [] OTHER        -> <<>>

\* declared async
AsyncB(b) ==
  b \in {"wrap", "twice", "throwA", "slow", "late", "pause", "ticks", "wrapThrow"}

---------------------------------------------------------------------------
(* Activations, registers, continuations *)

Reg(t, p, v) == [t |-> t, p |-> p, v |-> v]
NoR == Reg("none", 0, Und)
Undef == Reg("val", 0, Und)

Cont(k, a, i) == [k |-> k, a |-> a, i |-> i]
noopNext == Cont("noop", 0, 0)
Terminal == Cont("term", 0, 0)
NoNext == Cont("none", 0, 0)

Act(k, h, ctx, nx) ==
  [k |-> k, h |-> h, pc |-> 1, ctx |-> ctx, nx |-> nx, st |-> "run",
   val |-> Und, on |-> 0, r |-> NoR, retd |-> FALSE, hd |-> FALSE,
   li |-> -1, fl |-> FALSE, ps |-> <<>>, inst |-> 0, idx |-> 0]

Settled(st, val) ==
  [Act("promise", None, 0, NoNext) EXCEPT !.st = st, !.val = val]

Ev(ev, id, ctx, run) == [ev |-> ev, id |-> id, ctx |-> ctx, run |-> run]

M == [acts |-> acts, stack |-> stack, mq |-> mq, tq |-> tq, log |-> log,
      result |-> result, count |-> count, run |-> runs + 1]

TopId(m) == m.stack[Len(m.stack)]
Top(m) == m.acts[TopId(m)]

Pop(m) == [m EXCEPT !.stack = SubSeq(@, 1, Len(@) - 1)]

\* hand v to the running frame, or to the invocation's caller
Deliver(m, v) ==
  IF m.stack = <<>> THEN [m EXCEPT !.result = v]
  ELSE [m EXCEPT !.acts[TopId(m)].r = v]

\* a synchronous function returns v (or throws, v.t = "throw")
ReturnSync(m, v) ==
  Deliver(Pop([m EXCEPT !.acts[TopId(m)].st = "done"]), v)

Ids(m) == [i \in 1..Len(m.acts) |-> i]

\* promise p settles: the activations awaiting it are queued
Settle(m, p, st, val) ==
  LET waiting(a) == m.acts[a].st = "wait" /\ m.acts[a].on = p
  IN [m EXCEPT !.acts[p].st = st, !.acts[p].val = val,
               !.mq = @ \o SelectSeq(Ids(m), waiting)]

\* a new, already settled promise is handed to the running frame
GiveSettled(m, st, val) ==
  LET n == Len(m.acts) + 1
  IN Deliver([m EXCEPT !.acts = Append(@, Settled(st, val))], Reg("p", n, Und))

\* an async function's activation a completes
FinishAsync(m, st, val) ==
  LET a == TopId(m)
      m1 == Pop(Settle(m, a, st, val))
  IN IF m.acts[a].retd THEN m1
     ELSE Deliver([m1 EXCEPT !.acts[a].retd = TRUE], Reg("p", a, Und))

\* the running async activation awaits its register (how = "reg") or a
\* timer (how = "timer"), or goes on in a later job of the microtask queue
\* (how = "job"); it gives its promise to its caller the first time
Suspend(m, how) ==
  LET a == TopId(m)
      r == m.acts[a].r
      onp == IF how = "reg" /\ r.t = "p" THEN r.p ELSE 0
      now == how # "timer" /\ (onp = 0 \/ m.acts[onp].st \in {"ok", "err"})
      m1 == [m EXCEPT !.acts[a].st = "wait", !.acts[a].on = onp,
                      !.acts[a].pc = @ + 1,
                      !.acts[a].r = IF how = "timer" THEN Undef ELSE @,
                      !.mq = IF now THEN Append(@, a) ELSE @,
                      !.tq = IF how = "timer" THEN Append(@, a) ELSE @]
      m2 == IF onp = 0 THEN m1 ELSE [m1 EXCEPT !.acts[onp].hd = TRUE]
      m3 == Pop(m2)
  IN IF m.acts[a].retd THEN m3
     ELSE Deliver([m3 EXCEPT !.acts[a].retd = TRUE], Reg("p", a, Und))

Adv(m) == [m EXCEPT !.acts[TopId(m)].pc = @ + 1]

Push(m, act) ==
  [m EXCEPT !.acts = Append(@, act), !.stack = Append(@, Len(m.acts) + 1)]

\* the running frame calls handler h with (ctx, nx)
CallHandler(m, h, ctx, nx) ==
  IF h.k = "stop" THEN GiveSettled(m, "ok", Und)
  ELSE Push(m, Act(h.k, h, ctx, nx))

\* the running frame calls the continuation c
CallCont(m, c) ==
  CASE c.k = "noop" -> GiveSettled(m, "ok", Und)
    [] c.k = "term" ->
         GiveSettled([m EXCEPT !.log = Append(@, Ev("terminal", 0, 0, m.run))],
                     "ok", Und)
    [] c.k = "disp" ->
         Push(m, [Act("dispatch", None, 0, NoNext) EXCEPT
                    !.inst = c.a, !.idx = c.i])
    [] c.k = "wrapcb" ->
         IF m.acts[c.a].fl THEN GiveSettled(m, "err", Multi)
         ELSE GiveSettled([m EXCEPT !.acts[c.a].fl = TRUE], "ok", Und)
    [] c.k = "cont" ->
         Push(m, [Act("cont", None, 0, NoNext) EXCEPT !.inst = c.a])

---------------------------------------------------------------------------
(* The code of each kind of activation, one step at a time *)

\* a user's stage
StageStep(m) ==
  LET a == TopId(m)
      A == Top(m)
      s == Script(A.h.b)
  IN IF A.pc > Len(s)
       THEN IF AsyncB(A.h.b) THEN FinishAsync(m, "ok", Und)
            ELSE ReturnSync(m, Undef)
       ELSE LET op == s[A.pc]
            IN CASE op \in {"start", "mark", "end"} ->
                      Adv([m EXCEPT !.log = Append(@, Ev(op, A.h.id, A.ctx, m.run))])
                 [] op = "call" -> CallCont(Adv(m), A.nx)
                 [] op = "await" -> Suspend(m, "reg")
                 [] op = "tick" -> Suspend(m, "timer")
                 [] op = "ret" -> ReturnSync(m, A.r)
                 [] op = "throw" ->
                      [m EXCEPT !.acts[a].r = Reg("throw", 0, Err(A.h.id))]

\* the handler compose returned: (context, next) => { lastIndex = -1; ... }
ComposedStep(m) ==
  LET a == TopId(m)
  IN IF Top(m).pc = 1
       THEN CallCont(Adv(m), Cont("disp", a, 0))
       ELSE ReturnSync(m, Top(m).r)

\* if (index <= lastIndex): the continuation was already used
ReplayedStrict(index, lastIndex) == index < lastIndex
Replayed(index, lastIndex) == index <= lastIndex

\* the continuation handed to stage index: () => nextDispatch(index + 1)
NextIndexSkips(index) == index + 2
NextIndex(index) == index + 1

\* middlewares.length !== index ? middlewares[index] : next
ChosenNoTerminal(middlewares, index, nx) ==
  IF index < Len(middlewares) THEN [t |-> "mw", h |-> middlewares[index + 1]]
  ELSE [t |-> "undef", h |-> None]
Chosen(middlewares, index, nx) ==
  IF Len(middlewares) # index
    THEN IF index < Len(middlewares)
           THEN [t |-> "mw", h |-> middlewares[index + 1]]
           ELSE [t |-> "undef", h |-> None]
    ELSE IF nx.k = "none" THEN [t |-> "undef", h |-> None]
         ELSE [t |-> "next", h |-> None]

\* return Promise.resolve(middleware(context, ...)), once middleware returned
DispatchReturnDrops(m) ==
  ReturnSync(GiveSettled(m, "ok", Und), Reg("p", Len(m.acts) + 1, Und))
DispatchReturn(m) ==
  IF Top(m).r.t = "p" THEN ReturnSync(m, Top(m).r)
  ELSE ReturnSync(GiveSettled(m, "ok", Top(m).r.v), Reg("p", Len(m.acts) + 1, Und))

\* the context nextDispatch hands to the stage: context itself
PassContextCopy(context) == 0
PassContext(context) == context

\* lastIndex declared once for all invocations of the composed handler
lastIndexShared(m, inst) ==
  CHOOSE i \in 1..Len(m.acts) :
    /\ m.acts[i].k = "compose" /\ m.acts[i].h = m.acts[inst].h
    /\ \A j \in 1..(i - 1) :
         ~(m.acts[j].k = "compose" /\ m.acts[j].h = m.acts[inst].h)

\* let lastIndex = -1 in the composed handler: the invocation inst has its own
lastIndexOf(m, inst) == inst

\* nextDispatch(index) of the compose invocation inst
DispatchStep(m) ==
  LET inst == Top(m).inst
      index == Top(m).idx
      I == [m.acts[inst] EXCEPT !.li = m.acts[lastIndexOf(m, inst)].li]
      m1 == Adv([m EXCEPT !.acts[lastIndexOf(m, inst)].li = index])
      middleware == Chosen(I.h.xs, index, I.nx)
  IN IF Top(m).pc = 1
       THEN IF Replayed(index, I.li)
              THEN ReturnSync(GiveSettled(m, "err", Multi),
                              Reg("p", Len(m.acts) + 1, Und))
            ELSE IF middleware.t = "undef"
              THEN ReturnSync(GiveSettled(m1, "ok", Und),
                              Reg("p", Len(m.acts) + 1, Und))
            ELSE IF middleware.t = "next"
              THEN CallCont(m1, I.nx)
            ELSE CallHandler(m1, middleware.h, PassContext(I.ctx),
                             Cont("disp", inst, NextIndex(index)))
       ELSE DispatchReturn(m)

\* skipMiddleware: (_ctx, next) => next()
SkipStep(m) ==
  IF Top(m).pc = 1 THEN CallCont(Adv(m), Top(m).nx)
  ELSE ReturnSync(m, Top(m).r)

\* composer.use(...middleware) putting the new stages first
useFirst(bs, b, ms) ==
  IF ComposerNew(bs, ms) = TypeError THEN bs
  ELSE [bs EXCEPT ![b] = compose(<<ComposerNew(bs, ms), @>>)]

\* composer.use(...middleware) changing the handler of every composer
useAll(bs, b, ms) ==
  IF ComposerNew(bs, ms) = TypeError THEN bs
  ELSE [i \in 1..Len(bs) |-> compose(<<bs[i], ComposerNew(bs, ms)>>)]

\* composer.use(...middleware) on builder b: the builders afterwards
use(bs, b, ms) ==
  IF ComposerNew(bs, ms) = TypeError THEN bs
  ELSE [bs EXCEPT ![b] = compose(<<@, ComposerNew(bs, ms)>>)]

\* composer.clone(): the new composer is the last builder, made of the
\* handler the composer has now
clone(bs, b) == Append(bs, ComposerNew(bs, <<bs[b]>>))

\* what use returns: the composer itself
useResult(b) == b

\* composer.lazy(factory)
lazy(bs, b, factory) == use(bs, b, <<getLazyMiddleware(factory)>>)

\* composer.branch(condition, trueMiddleware, falseMiddleware)
branch(bs, b, condition, trueMiddleware, falseMiddleware) ==
  lazy(bs, b, getBranchMiddleware(condition, trueMiddleware, falseMiddleware))

\* composer.route(router, routeHandlers, fallback = skipMiddleware)
route(bs, b, router, routeHandlers, fallback) ==
  lazy(bs, b, RouteFactory(router, routeHandlers,
                           IF fallback = Und THEN skipMiddleware ELSE fallback))

\* composer.fork(...middleware): the new composer is the last builder
fork(bs, b, ms) ==
  IF ComposerNew(bs, ms) = TypeError THEN bs
  ELSE use(Append(bs, ComposerNew(bs, ms)), b, <<ForkFn(Len(bs) + 1)>>)

\* composer.before(beforeMiddleware, middleware)
before(bs, b, beforeMiddleware, middleware) ==
  use(bs, b, <<getBeforeMiddleware(ToArray(beforeMiddleware), ToArray(middleware))>>)

\* composer.after(middleware, afterMiddleware)
after(bs, b, middleware, afterMiddleware) ==
  use(bs, b, <<getAfterMiddleware(ToArray(middleware), ToArray(afterMiddleware))>>)

\* composer.enforce(beforeMiddleware, middleware, afterMiddleware)
enforce(bs, b, beforeMiddleware, middleware, afterMiddleware) ==
  use(bs, b, <<getEnforceMiddleware(beforeMiddleware, middleware, afterMiddleware)>>)

\* composer.concurrency(middlewares)
concurrency(bs, b, middlewares) ==
  use(bs, b, <<getConcurrencyMiddleware(middlewares)>>)

\* composer.errorBoundary(errorHandler, ...middleware)
errorBoundary(bs, b, errorHandler, ms) ==
  IF ComposerNew(bs, ms) = TypeError THEN bs
  ELSE use(Append(bs, ComposerNew(bs, ms)), b, <<BoundaryFn(Len(bs) + 1, errorHandler)>>)

\* composer.caught(errorHandler), given first place in the chain
caughtFirst(bs, b, errorHandler) ==
  [bs EXCEPT ![b] = compose(<<ComposerNew(bs, <<CaughtFn(errorHandler)>>), @>>)]

\* composer.caught(errorHandler)
caught(bs, b, errorHandler) == use(bs, b, <<CaughtFn(errorHandler)>>)

\* composer.tap(...middleware): the new composer is the last builder, and the
\* composer is given to use as it is
tap(bs, b, ms) ==
  LET taps == [i \in 1..Len(ms) |-> getTapMiddleware(ms[i])]
  IN IF ComposerNew(bs, taps) = TypeError THEN bs
     ELSE use(Append(bs, ComposerNew(bs, taps)), b, <<Obj(Len(bs) + 1)>>)

\* composer.filter(condition, ...middleware): the new composer is the last
\* builder, and is given to branch as it is
filter(bs, b, condition, ms) ==
  IF ComposerNew(bs, ms) = TypeError THEN bs
  ELSE branch(Append(bs, ComposerNew(bs, ms)), b, condition,
              Obj(Len(bs) + 1), skipMiddleware)

\* composer.drop(condition, ...middleware)
dropSkips(bs, b, condition, ms) == filter(bs, b, condition, ms)
drop(bs, b, condition, ms) ==
  IF ComposerNew(bs, ms) = TypeError THEN bs
  ELSE branch(Append(bs, ComposerNew(bs, ms)), b, condition,
              Obj(Len(bs) + 1), stopMiddleware)

\* the continuation the lazily made chain ends in
LazyNextNoop(nx) == noopNext
LazyNext(nx) == nx

\* getLazyMiddleware: async (ctx, next) => { ... }
LazyStep(m) ==
  LET A == Top(m)
      arr == ToArray(A.r.v)
      h == compose([i \in 1..Len(arr) |-> flattenMiddleware(builders, arr[i])])
  IN CASE A.pc = 1 -> Push(Adv(m), Act("factory", A.h.xs[1], A.ctx, NoNext))
       [] A.pc = 2 -> Suspend(m, "reg")
       [] A.pc = 3 ->
            IF h = TypeError
              THEN [m EXCEPT !.acts[TopId(m)].r = Reg("throw", 0, TypeError)]
              ELSE CallHandler(Adv(m), h, A.ctx, LazyNext(A.nx))
       [] A.pc = 4 -> Suspend(m, "reg")
       [] OTHER -> FinishAsync(m, "ok", Und)

\* the factory lazy calls: a user's, getBranchMiddleware's or route's
FactoryStep(m) ==
  LET a == TopId(m)
      A == Top(m)
      f == A.h
      c == EvalCondition(f.zs[1], m.count)
  IN CASE f.b = "user" ->
            ReturnSync([m EXCEPT !.log = Append(@, Ev("factory", f.id, A.ctx, m.run))],
                       Reg("val", 0, f.xs[1]))
       [] f.b = "branch" /\ A.pc = 1 ->
            IF f.zs[1].k = "boolean"
              THEN FinishAsync(m, "ok",
                     BranchPick(Bool(f.zs[1].b = "true"), f.xs[1], f.ys[1]))
              ELSE Adv([m EXCEPT
                     !.log = IF c.called THEN Append(@, Ev("cond", 0, A.ctx, m.run))
                             ELSE @,
                     !.count = c.count,
                     !.acts[a].r = Reg("val", 0, c.v)])
       [] f.b = "branch" /\ A.pc = 2 -> Suspend(m, "reg")
       [] f.b = "branch" /\ A.pc = 3 ->
            FinishAsync(m, "ok", BranchPick(A.r.v, f.xs[1], f.ys[1]))
       [] f.b = "route" /\ A.pc = 1 ->
            Adv([m EXCEPT !.log = Append(@, Ev("router", 0, A.ctx, m.run)),
                          !.acts[a].r = Reg("val", 0, f.zs[1].xs[1])])
       [] f.b = "route" /\ A.pc = 2 -> Suspend(m, "reg")
       [] f.b = "route" /\ A.pc = 3 ->
            FinishAsync(m, "ok", RoutePick(A.r.v, f.xs, f.ys[1]))

\* return v of an async function, from its step number k on: a promise is
\* adopted a job later, and the function's own promise settles as it does
AsyncReturn(m, k) ==
  CASE k = 0 -> IF Top(m).r.t = "p" THEN Suspend(m, "job")
                ELSE FinishAsync(m, "ok", Top(m).r.v)
    [] k = 1 -> Suspend(m, "reg")
    [] OTHER -> FinishAsync(m, "ok", Top(m).r.v)

\* the continuation the tapped middleware is given
TapNextReal(nx) == nx
TapNext(nx) == noopNext

\* getTapMiddleware: async (context, next) => { ... }
TapStep(m) ==
  LET A == Top(m)
      h == flattenMiddleware(builders, A.h.xs[1])
  IN CASE A.pc = 1 ->
            IF IsFunction(h)
              THEN CallHandler(Adv(m), h, A.ctx, TapNext(A.nx))
              ELSE [m EXCEPT !.acts[TopId(m)].r = Reg("throw", 0, TypeError)]
       [] A.pc = 2 -> Suspend(m, "reg")
       [] A.pc = 3 -> CallCont(Adv(m), A.nx)
       [] OTHER -> AsyncReturn(m, A.pc - 4)

\* Promise.all(rs): the new promise is the next activation, and one reaction
\* per element waits for it; the reactions of settled elements are queued
PromiseAll(m, rs) ==
  LET all == Len(m.acts) + 1
      settled(i) == rs[i].t # "p" \/ m.acts[rs[i].p].st \in {"ok", "err"}
      elem(i) == [Act("elem", None, 0, NoNext) EXCEPT
                    !.st = "wait", !.r = rs[i], !.inst = all, !.idx = i,
                    !.on = IF rs[i].t = "p" THEN rs[i].p ELSE 0]
      promise == IF Len(rs) = 0 THEN Settled("ok", Arr(<<>>))
                 ELSE [Act("all", None, 0, NoNext) EXCEPT
                         !.st = "pend", !.li = 0,
                         !.ps = [i \in 1..Len(rs) |-> Undef]]
      hd(a) == \E i \in 1..Len(rs) : rs[i].t = "p" /\ rs[i].p = a
  IN [m EXCEPT
        !.acts = [a \in 1..Len(@) |-> IF hd(a) THEN [@[a] EXCEPT !.hd = TRUE]
                                                 ELSE @[a]]
                 \o <<promise>> \o [i \in 1..Len(rs) |-> elem(i)],
        !.mq = @ \o SelectSeq([i \in 1..Len(rs) |-> all + i],
                               LAMBDA e : settled(e - all))]

\* the reaction of Promise.all to one element: the first rejection rejects
\* the promise, the last fulfilment fulfils it with the values
ElemStepWaits(m) ==
  LET a == TopId(m)
      A == Top(m)
      P == m.acts[A.inst]
      vals == [P.ps EXCEPT ![A.idx] = A.r]
      bad == SelectSeq(vals, LAMBDA r : r.t = "throw")
      m1 == Pop([m EXCEPT !.acts[a].st = "done"])
  IN IF P.st # "pend" THEN m1
     ELSE IF P.li + 1 < Len(vals)
       THEN [m1 EXCEPT !.acts[A.inst].ps = vals, !.acts[A.inst].li = @ + 1]
     ELSE IF bad # <<>> THEN Settle(m1, A.inst, "err", bad[1].v)
     ELSE Settle(m1, A.inst, "ok", Arr([i \in 1..Len(vals) |-> vals[i].v]))
ElemStep(m) ==
  LET a == TopId(m)
      A == Top(m)
      P == m.acts[A.inst]
      vals == [P.ps EXCEPT ![A.idx] = A.r]
      m1 == Pop([m EXCEPT !.acts[a].st = "done"])
  IN IF P.st # "pend" THEN m1
     ELSE IF A.r.t = "throw" THEN Settle(m1, A.inst, "err", A.r.v)
     ELSE IF P.li + 1 = Len(vals)
       THEN Settle(m1, A.inst, "ok", Arr([i \in 1..Len(vals) |-> vals[i].v]))
     ELSE [m1 EXCEPT !.acts[A.inst].ps = vals, !.acts[A.inst].li = @ + 1]

\* what wrapMiddlewareNextCall returns
wrapResultTrue(called) == Bool(TRUE)
wrapResult(called) == Bool(called)

\* wrapMiddlewareNextCall(context, middleware)
WrapStep(m) ==
  LET a == TopId(m)
      A == Top(m)
  IN CASE A.pc = 1 ->
            IF IsFunction(A.h)
              THEN CallHandler(Adv(m), A.h, A.ctx, Cont("wrapcb", a, 0))
              ELSE [m EXCEPT !.acts[a].r = Reg("throw", 0, TypeError)]
       [] A.pc = 2 -> Suspend(m, "reg")
       [] OTHER -> FinishAsync(m, "ok", wrapResult(A.fl))

\* a value in a condition
Truthy(r) == r.t = "p" \/ r.v \notin {Und, Null, Bool(FALSE)}

\* getBeforeMiddleware, getAfterMiddleware: every(async ...) over the first
\* list, A.idx of which are started; then the second list, composed
GateStep(m) ==
  LET a == TopId(m)
      A == Top(m)
      h == compose([i \in 1..Len(A.h.ys) |-> flattenMiddleware(builders, A.h.ys[i])])
  IN CASE A.pc = 1 ->
            IF A.idx > 0 /\ ~Truthy(A.r) THEN FinishAsync(m, "ok", Und)
            ELSE IF A.idx < Len(A.h.xs)
              THEN Push([m EXCEPT !.acts[a].idx = @ + 1],
                        Act("wrapcall",
                            flattenMiddleware(builders, A.h.xs[A.idx + 1]),
                            A.ctx, NoNext))
            ELSE Adv(m)
       [] A.pc = 2 ->
            IF h = TypeError
              THEN [m EXCEPT !.acts[a].r = Reg("throw", 0, TypeError)]
              ELSE CallHandler(Adv(m), h, A.ctx, A.nx)
       [] OTHER -> AsyncReturn(m, A.pc - 3)

\* [...beforeMiddlewares, ...middlewares, ...afterMiddlewares]
allMiddlewaresMainFirst(h) == h.ys \o h.xs \o h.zs
allMiddlewares(h) == h.xs \o h.ys \o h.zs

\* getEnforceMiddleware
EnforceStep(m) ==
  LET A == Top(m)
      all == allMiddlewares(A.h)
      h == compose([i \in 1..Len(all) |-> flattenMiddleware(builders, all[i])])
  IN CASE A.pc = 1 ->
            IF h = TypeError
              THEN [m EXCEPT !.acts[TopId(m)].r = Reg("throw", 0, TypeError)]
              ELSE CallHandler(Adv(m), h, A.ctx, A.nx)
       [] OTHER -> AsyncReturn(m, A.pc - 2)

\* concurrencies.every(Boolean)
SomeBoolean(concurrencies) ==
  \E i \in 1..Len(concurrencies) : concurrencies[i] = Bool(TRUE)
EveryBoolean(concurrencies) ==
  \A i \in 1..Len(concurrencies) : concurrencies[i] = Bool(TRUE)

ConcurrencyStepInTurn(m) ==
  LET a == TopId(m)
      A == Top(m)
  IN CASE A.pc = 1 /\ A.idx < Len(A.h.xs) ->
            Push([m EXCEPT !.acts[a].idx = @ + 1, !.acts[a].pc = 2],
                 Act("wrapcall", flattenMiddleware(builders, A.h.xs[A.idx + 1]),
                     A.ctx, NoNext))
       [] A.pc = 1 /\ A.idx >= Len(A.h.xs) ->
            IF EveryBoolean([i \in 1..Len(A.ps) |-> A.ps[i].v])
              THEN CallCont([m EXCEPT !.acts[a].pc = 4], A.nx)
              ELSE FinishAsync(m, "ok", Und)
       [] A.pc = 2 -> Suspend(m, "reg")
       [] A.pc = 3 -> [m EXCEPT !.acts[a].ps = Append(@, A.r), !.acts[a].pc = 1]
       [] OTHER -> AsyncReturn(m, A.pc - 4)

\* getConcurrencyMiddleware: A.idx of the middlewares are started, the
\* promises of wrapMiddlewareNextCall are in A.ps
ConcurrencyStep(m) ==
  LET a == TopId(m)
      A == Top(m)
      ps == IF Len(A.ps) < A.idx THEN Append(A.ps, A.r) ELSE A.ps
      m1 == [m EXCEPT !.acts[a].ps = ps]
  IN CASE A.pc = 1 ->
            IF A.idx < Len(A.h.xs)
              THEN Push([m1 EXCEPT !.acts[a].idx = @ + 1],
                        Act("wrapcall",
                            flattenMiddleware(builders, A.h.xs[A.idx + 1]),
                            A.ctx, NoNext))
              ELSE Adv([PromiseAll(m1, ps) EXCEPT
                          !.acts[a].r = Reg("p", Len(m.acts) + 1, Und)])
       [] A.pc = 2 -> Suspend(m, "reg")
       [] A.pc = 3 ->
            IF EveryBoolean(A.r.v.xs)
              THEN CallCont(Adv(m), A.nx)
              ELSE FinishAsync(m, "ok", Und)
       [] OTHER -> AsyncReturn(m, A.pc - 4)

\* the continuation the forked sub-chain is given
ForkNextReal(nx) == nx
ForkNext(nx) == noopNext

\* the function of fork
ForkStep(m) ==
  LET a == TopId(m)
      A == Top(m)
  IN CASE A.pc = 1 -> CallCont(Adv(m), A.nx)
       [] A.pc = 2 ->
            CallHandler(Adv([m EXCEPT !.acts[a].ps = <<A.r>>]),
                        getMiddleware(builders, A.h.id), A.ctx, ForkNext(A.nx))
       [] OTHER ->
            ReturnSync(PromiseAll(m, Append(A.ps, A.r)),
                       Reg("p", Len(m.acts) + 1, Und))

\* cont without its assignment to nextCalled
ContStepForgets(m) ==
  LET A == Top(m)
  IN IF A.pc = 1
       THEN GiveSettled(Adv(m), "ok", Und)
       ELSE AsyncReturn(m, A.pc - 2)

\* const cont = async () => { nextCalled = true; return Promise.resolve(); }
ContStep(m) ==
  LET A == Top(m)
  IN IF A.pc = 1
       THEN GiveSettled(Adv([m EXCEPT !.acts[A.inst].fl = TRUE]), "ok", Und)
       ELSE AsyncReturn(m, A.pc - 2)

\* the continuation the protected sub-chain and the handler are given: cont
BoundaryContNext(a, nx) == nx
BoundaryCont(a, nx) == Cont("cont", a, 0)

\* nextCalled = false in the catch block
CatchKeeps(nextCalled) == nextCalled
CatchResets(nextCalled) == FALSE

\* the function of errorBoundary; A.fl is nextCalled
BoundaryStep(m) ==
  LET a == TopId(m)
      A == Top(m)
      cont == BoundaryCont(a, A.nx)
  IN IF A.r.t = "throw"
       THEN [m EXCEPT !.acts[a].pc = 4, !.acts[a].fl = CatchResets(@),
                      !.acts[a].ps = <<A.r>>, !.acts[a].r = NoR]
     ELSE
     CASE A.pc = 1 -> CallHandler(Adv(m), getMiddleware(builders, A.h.id), A.ctx, cont)
       [] A.pc = 2 -> Suspend(m, "reg")
       [] A.pc = 3 -> [m EXCEPT !.acts[a].pc = 7]
       [] A.pc = 4 ->
            Push(Adv(m), [Act("handler", A.h.xs[1], A.ctx, cont) EXCEPT
                            !.ps = <<Reg("val", 0, BoundaryError(A.ps[1].v, A.ctx))>>])
       [] A.pc = 5 -> Suspend(m, "reg")
       [] A.pc = 6 -> Adv(m)
       [] A.pc = 7 ->
            IF A.fl THEN CallCont(Adv(m), A.nx) ELSE FinishAsync(m, "ok", Und)
       [] A.pc = 8 -> Suspend(m, "reg")
       [] OTHER -> FinishAsync(m, "ok", Und)

\* the function of caught: from step 4 on it is in its catch block, A.ps
\* holding the error
CaughtStep(m) ==
  LET a == TopId(m)
      A == Top(m)
  IN IF A.r.t = "throw"
       THEN [m EXCEPT !.acts[a].pc = 4, !.acts[a].ps = <<A.r>>, !.acts[a].r = NoR]
     ELSE
     CASE A.pc = 1 -> CallCont(Adv(m), A.nx)
       [] A.pc = 2 -> Suspend(m, "reg")
       [] A.pc = 3 -> FinishAsync(m, "ok", Und)
       [] A.pc = 4 ->
            Push(Adv(m), [Act("handler", A.h.xs[1], A.ctx, NoNext) EXCEPT !.ps = A.ps])
       [] OTHER -> AsyncReturn(m, A.pc - 5)

\* a user's error handler, given (new BoundaryError(err, ctx), cont) by
\* errorBoundary and (ctx, err) by caught: it logs the error and the context
\* it is given ("handler", or "enclosing" when it is the handler of an
\* enclosing combinator), and for a BoundaryError what e.context is ("alias")
HandlerStep(m) ==
  LET a == TopId(m)
      A == Top(m)
      e == A.ps[1].v
      bound == e.k = "BoundaryError"
      error == IF bound THEN ErrorOf(e) ELSE e
      seen == Ev(IF A.h.id = 0 THEN "handler" ELSE "enclosing",
                 error.id, IF bound THEN CtxOf(e) ELSE A.ctx, m.run)
      alias == Ev("alias", error.id, ContextOf(e), m.run)
  IN CASE A.pc = 1 ->
            Adv([m EXCEPT !.log = @ \o (IF bound THEN <<seen, alias>> ELSE <<seen>>)])
       [] A.pc = 2 /\ A.h.b = "resume" -> CallCont(Adv(m), A.nx)
       [] A.pc = 2 /\ A.h.b = "rethrow" ->
            [m EXCEPT !.acts[a].r = Reg("throw", 0, error)]
       [] A.pc = 2 /\ A.h.b = "raise" ->
            [m EXCEPT !.acts[a].r = Reg("throw", 0, Err(0))]
       [] A.pc = 2 /\ A.h.b = "swallow" -> ReturnSync(m, Undef)
       [] OTHER -> ReturnSync(m, A.r)

IsAsync(A) ==
  CASE A.k = "stage" -> AsyncB(A.h.b)
    [] A.k = "factory" -> A.h.b # "user"
    [] OTHER -> A.k \notin {"compose", "dispatch", "skip", "fork", "handler"}

\* no function has a try block
CatchesElemOnly(A) == A.k = "elem"

\* whether the running frame is inside a try block of its function, or is a
\* reaction to a rejection
Catches(A) == A.k = "elem" \/ (A.k \in {"boundary", "caught"} /\ A.pc \in {2, 3})

\* an exception is lost where it leaves a frame
UnwindStepLoses(m) ==
  IF IsAsync(Top(m)) THEN FinishAsync(m, "ok", Und) ELSE ReturnSync(m, Undef)

\* an exception leaves the running frame
UnwindStep(m) ==
  IF IsAsync(Top(m)) THEN FinishAsync(m, "err", Top(m).r.v)
  ELSE ReturnSync(m, Top(m).r)

---------------------------------------------------------------------------
(* Actions *)

Set(m) ==
  /\ acts' = m.acts
  /\ stack' = m.stack
  /\ mq' = m.mq
  /\ tq' = m.tq
  /\ log' = m.log
  /\ result' = m.result
  /\ count' = m.count

Running(k) ==
  /\ phase = "run"
  /\ stack # <<>>
  /\ Top(M).k = k
  /\ (Top(M).r.t = "throw" => Catches(Top(M)))

Frame == UNCHANGED <<builders, args, composed, next, phase, runs, made, ops>>

StageRun == Running("stage") /\ Set(StageStep(M)) /\ Frame
ComposedRun == Running("compose") /\ Set(ComposedStep(M)) /\ Frame
DispatchRun == Running("dispatch") /\ Set(DispatchStep(M)) /\ Frame
SkipRun == Running("skip") /\ Set(SkipStep(M)) /\ Frame

LazyRun == Running("lazy") /\ Set(LazyStep(M)) /\ Frame
FactoryRun == Running("factory") /\ Set(FactoryStep(M)) /\ Frame

TapRun == Running("tap") /\ Set(TapStep(M)) /\ Frame
WrapRun == Running("wrapcall") /\ Set(WrapStep(M)) /\ Frame
BeforeRun == Running("before") /\ Set(GateStep(M)) /\ Frame
AfterRun == Running("after") /\ Set(GateStep(M)) /\ Frame
EnforceRun == Running("enforce") /\ Set(EnforceStep(M)) /\ Frame
ConcurrencyRun == Running("concurrency") /\ Set(ConcurrencyStep(M)) /\ Frame
ForkRun == Running("fork") /\ Set(ForkStep(M)) /\ Frame
ElemRun == Running("elem") /\ Set(ElemStep(M)) /\ Frame
ContRun == Running("cont") /\ Set(ContStep(M)) /\ Frame
BoundaryRun == Running("boundary") /\ Set(BoundaryStep(M)) /\ Frame
HandlerRun == Running("handler") /\ Set(HandlerStep(M)) /\ Frame
CaughtRun == Running("caught") /\ Set(CaughtStep(M)) /\ Frame

Unwind ==
  /\ phase = "run"
  /\ stack # <<>>
  /\ Top(M).r.t = "throw"
  /\ ~Catches(Top(M))
  /\ Set(UnwindStep(M))
  /\ Frame

\* the host runs the next microtask: the activation continues after its await
Resume ==
  /\ phase = "run"
  /\ stack = <<>>
  /\ mq # <<>>
  /\ LET a == Head(mq)
         p == acts[a].on
         r == IF p = 0 THEN acts[a].r
              ELSE IF acts[p].st = "ok" THEN Reg("val", 0, acts[p].val)
              ELSE Reg("throw", 0, acts[p].val)
     IN /\ acts' = [acts EXCEPT ![a].st = "run", ![a].r = r]
        /\ stack' = <<a>>
        /\ mq' = Tail(mq)
  /\ UNCHANGED <<tq, log, result, count>>
  /\ Frame

\* the host runs the next timer once no microtask is left
Timer ==
  /\ phase = "run"
  /\ stack = <<>>
  /\ mq = <<>>
  /\ tq # <<>>
  /\ acts' = [acts EXCEPT ![Head(tq)].st = "run"]
  /\ stack' = <<Head(tq)>>
  /\ tq' = Tail(tq)
  /\ UNCHANGED <<mq, log, result, count>>
  /\ Frame

\* nothing is left to run: the invocation is over
Quiesce ==
  /\ phase = "run"
  /\ stack = <<>> /\ mq = <<>> /\ tq = <<>>
  /\ phase' = "idle"
  /\ runs' = runs + 1
  /\ UNCHANGED <<builders, args, composed, next, acts, stack, mq, tq, log, result,
                 made, ops, count>>

Fresh == [M EXCEPT !.acts = <<>>, !.result = NoR]

\* the context object of the next invocation: a new one each time
NewCtx == runs + 1

\* what a caller may pass to compose: stages, the snippets, and values that
\* are no functions (a number, a Composer instance)
ArgKinds == Behaviours \cup {"stopMw", "value", "obj"}

Arg(i, b) ==
  CASE b = "value"  -> Value(i)
    [] b = "obj"    -> Obj(1)
    [] b = "stopMw" -> stopMiddleware
    [] OTHER        -> Stage(i, b)

\* a direct call compose(...middlewares)
ComposeCall ==
  /\ phase = "build"
  /\ composed = None
  /\ ops = 0
  /\ ops' = ops + 1
  /\ \E n \in 0..MaxStages : \E bs \in [1..n -> ArgKinds] :
       LET ms == [i \in 1..n |-> Arg(i, bs[i])]
       IN /\ args' = ms
          /\ composed' = compose(ms)
          /\ made' = n
  /\ UNCHANGED <<builders, next, acts, stack, mq, tq, log, result, phase, runs,
                 count>>

\* composer.use(...middleware) on builder 1, with new stages
Use ==
  /\ phase = "build"
  /\ composed = None
  /\ ops < MaxOps
  /\ ops' = ops + 1
  /\ \E n \in 0..(MaxStages - made) : \E bs \in [1..n -> Behaviours] :
       LET ms == [i \in 1..n |-> Stage(made + i, bs[i])]
       IN /\ builders' = use(builders, 1, ms)
          /\ made' = made + n
  /\ UNCHANGED <<args, composed, next, acts, stack, mq, tq, log, result, phase,
                 runs, count>>

\* the stages Stage(from + 1, bs[1]), ...
Stages(from, bs) == [i \in 1..Len(bs) |-> Stage(from + i, bs[i])]

\* one middleware or an array of them, as a caller may write it
MaybeArray(ms) == {Arr(ms)} \cup (IF Len(ms) = 1 THEN {ms[1]} ELSE {})

Op == phase = "build" /\ composed = None /\ ops = 0 /\ ops' = 1
OpFrame == UNCHANGED <<composed, next, acts, stack, mq, tq, log, result, phase,
                       runs, count>>

\* composer.lazy(factory) with a factory that returns stages, or no function
LazyOp ==
  /\ Op
  /\ \E n \in 0..MaxLazy : \E bs \in [1..n -> {"wrap", "ret", "stop", "throwS"}] :
     \E v \in MaybeArray(Stages(0, bs)) \cup {Value(1)} :
       /\ args' = <<Factory(1, v)>>
       /\ builders' = lazy(builders, 1, Factory(1, v))
       /\ made' = n
  /\ OpFrame

\* composer.branch(condition, A, B): A is stage 1, B is stage 2
BranchOp ==
  /\ Op
  /\ \E c \in {"true", "false", "fnTrue", "fnFalse", "alt"} :
     \E bs \in [1..2 -> {"wrap", "stop"}] :
     \E t \in MaybeArray(<<Stage(1, bs[1])>>) :
     \E f \in MaybeArray(<<Stage(2, bs[2])>>) :
       /\ args' = <<Cond(c), t, f>>
       /\ builders' = branch(builders, 1, Cond(c), t, f)
       /\ made' = 2
  /\ OpFrame

\* the keys a router may return: undefined, a key of the table, another key
Routes == {Und} \cup {Key(k) : k \in 1..(NKeys + 1)}

\* composer.route(router, table, fallback): the table's entry for key k is
\* stage k or undefined; the fallback, if given, is stage NKeys + 1 or null
RouteOp ==
  /\ Op
  /\ \E r \in Routes :
     \E bs \in [1..NKeys -> {"ret", "stop", "undefined"}] :
     \E fb \in {Und, Null, Stage(NKeys + 1, "ret"), Stage(NKeys + 1, "stop")} :
       LET table == [k \in 1..NKeys |->
                       IF bs[k] = "undefined" THEN Und ELSE Stage(k, bs[k])]
       IN /\ args' = <<Router(r), Arr(table), fb>>
          /\ builders' = route(builders, 1, Router(r), table, fb)
          /\ made' = NKeys + 1
  /\ OpFrame

\* what the stages given to a combinator do
Inner == {"wrap", "stop", "throwS"}

\* composer.fork(...stages)
ForkOp ==
  /\ Op
  /\ \E n \in 1..MaxSub : \E bs \in [1..n -> Inner] :
       /\ args' = <<ForkFn(2)>>
       /\ builders' = fork(builders, 1, Stages(0, bs))
       /\ made' = n
  /\ OpFrame

\* composer.concurrency([...stages])
ConcurrencyOp ==
  /\ Op
  /\ \E n \in 1..MaxSub : \E bs \in [1..n -> Inner] :
       /\ args' = <<getConcurrencyMiddleware(Stages(0, bs))>>
       /\ builders' = concurrency(builders, 1, Stages(0, bs))
       /\ made' = n
  /\ OpFrame

\* composer.before(stage 1, stage 2)
BeforeOp ==
  /\ Op
  /\ \E bs \in [1..2 -> Inner] :
       /\ args' = <<getBeforeMiddleware(<<Stage(1, bs[1])>>, <<Stage(2, bs[2])>>)>>
       /\ builders' = before(builders, 1, Stage(1, bs[1]), Stage(2, bs[2]))
       /\ made' = 2
  /\ OpFrame

\* composer.after(stage 1, stage 2)
AfterOp ==
  /\ Op
  /\ \E bs \in [1..2 -> Inner] :
       /\ args' = <<getAfterMiddleware(<<Stage(1, bs[1])>>, <<Stage(2, bs[2])>>)>>
       /\ builders' = after(builders, 1, Stage(1, bs[1]), Stage(2, bs[2]))
       /\ made' = 2
  /\ OpFrame

\* composer.enforce([stage 1], [stage 2], [stage 3])
EnforceOp ==
  /\ Op
  /\ \E bs \in [1..3 -> Inner] :
       LET st == Stages(0, bs)
       IN /\ args' = <<getEnforceMiddleware(<<st[1]>>, <<st[2]>>, <<st[3]>>)>>
          /\ builders' = enforce(builders, 1, <<st[1]>>, <<st[2]>>, <<st[3]>>)
          /\ made' = 3
  /\ OpFrame

\* composer.enforce([stage 1], main, [the last stage]): main is 1..MaxSub
\* stages, or the same stage twice
EnforceListsOp ==
  /\ Op
  /\ \E b, a \in Inner :
     \E n \in 1..MaxSub : \E bs \in [1..n -> Inner] :
     \E main \in {Stages(1, bs)} \cup
                 (IF n = 1 THEN {<<Stage(2, bs[1]), Stage(2, bs[1])>>} ELSE {}) :
       LET last == main[Len(main)].id + 1
       IN /\ args' = <<getEnforceMiddleware(<<Stage(1, b)>>, main, <<Stage(last, a)>>)>>
          /\ builders' = enforce(builders, 1, <<Stage(1, b)>>, main, <<Stage(last, a)>>)
          /\ made' = last
  /\ OpFrame

\* what the stages given to concurrency do: also with timers
Timed == {"wrap", "stop", "slow", "throwS", "throwA"}

\* composer.concurrency([...stages]) with stages that may wait for timers
ConcurrencyTimedOp ==
  /\ Op
  /\ \E n \in 1..MaxSub : \E bs \in [1..n -> Timed] :
       /\ args' = <<getConcurrencyMiddleware(Stages(0, bs))>>
       /\ builders' = concurrency(builders, 1, Stages(0, bs))
       /\ made' = n
  /\ OpFrame

\* what the stages of the fork test do: they wait for timers between marks
Ticking == {"wrap", "stop", "late", "pause"}

\* composer.fork(...stages) with stages that may wait for timers
ForkTimedOp ==
  /\ Op
  /\ \E n \in 1..MaxSub : \E bs \in [1..n -> Ticking] :
       /\ args' = <<ForkFn(2)>>
       /\ builders' = fork(builders, 1, Stages(0, bs))
       /\ made' = n
  /\ OpFrame

\* composer.errorBoundary(errorHandler, ...stages)
ErrorBoundaryOp ==
  /\ Op
  /\ \E e \in {"swallow", "resume", "rethrow"} :
     \E n \in 1..MaxSub : \E bs \in [1..n -> Inner] :
       /\ args' = <<BoundaryFn(2, ErrorHandler(e))>>
       /\ builders' = errorBoundary(builders, 1, ErrorHandler(e), Stages(0, bs))
       /\ made' = n
  /\ OpFrame

\* what the stages given to errorBoundary do: also throwing after an await,
\* or once their continuation has returned
Guarded == {"wrap", "stop", "throwS", "throwA", "wrapThrow"}

\* composer.errorBoundary(errorHandler, ...stages) with such stages
ErrorBoundaryFailingOp ==
  /\ Op
  /\ \E e \in {"swallow", "resume", "rethrow"} :
     \E n \in 1..MaxSub : \E bs \in [1..n -> Guarded] :
       /\ args' = <<BoundaryFn(2, ErrorHandler(e))>>
       /\ builders' = errorBoundary(builders, 1, ErrorHandler(e), Stages(0, bs))
       /\ made' = n
  /\ OpFrame

\* composer.caught(handler), or composer.errorBoundary(handler, stage): the
\* combinator that will enclose another
EnclosingOp ==
  /\ Op
  /\ \E e \in {"swallow", "rethrow"} :
       \/ /\ args' = <<CaughtFn(Enclosing(e))>>
          /\ builders' = caught(builders, 1, Enclosing(e))
          /\ made' = 0
       \/ /\ args' = <<BoundaryFn(2, Enclosing(e))>>
          /\ builders' = errorBoundary(builders, 1, Enclosing(e), <<Stage(1, "wrap")>>)
          /\ made' = 1
  /\ OpFrame

\* errorBoundary(handler, stage) on a new composer, or inside the enclosing
\* combinator: on the composer after caught, or on the composer the
\* enclosing errorBoundary returned
InnerBoundaryOp ==
  /\ phase = "build"
  /\ composed = None
  /\ ops \in {0, 1}
  /\ ops' = 2
  /\ \E e \in {"swallow", "resume", "rethrow", "raise"} : \E b \in {"throwS", "throwA"} :
       /\ args' = Append(args, BoundaryFn(Len(builders) + 1, ErrorHandler(e)))
       /\ builders' = errorBoundary(builders, Len(builders), ErrorHandler(e),
                                    <<Stage(made + 1, b)>>)
       /\ made' = made + 1
  /\ OpFrame

\* the conditions a caller may give
Conds == {"true", "false", "fnTrue", "fnFalse", "alt"}

\* composer.filter(condition, ...stages); args are what branch is given
FilterOp ==
  /\ Op
  /\ \E c \in Conds : \E n \in 0..MaxSub : \E bs \in [1..n -> Inner] :
       /\ args' = <<Cond(c), Obj(2), skipMiddleware>>
       /\ builders' = filter(builders, 1, Cond(c), Stages(0, bs))
       /\ made' = n
  /\ OpFrame

\* composer.drop(condition, ...stages); args are what branch is given
DropOp ==
  /\ Op
  /\ \E c \in Conds : \E n \in 0..MaxSub : \E bs \in [1..n -> Inner] :
       /\ args' = <<Cond(c), Obj(2), stopMiddleware>>
       /\ builders' = drop(builders, 1, Cond(c), Stages(0, bs))
       /\ made' = n
  /\ OpFrame

\* composer.tap(...stages)
TapOp ==
  /\ Op
  /\ \E n \in 1..MaxSub : \E bs \in [1..n -> {"wrap", "stop", "twice", "throwS"}] :
       /\ args' = Stages(0, bs)
       /\ builders' = tap(builders, 1, Stages(0, bs))
       /\ made' = n
  /\ OpFrame

\* use(stage) on the composer that fork or errorBoundary returned
UseSub ==
  /\ phase = "build"
  /\ composed = None
  /\ ops = 1
  /\ Len(builders) = 2
  /\ made < MaxStages
  /\ builders' = use(builders, 2, <<Stage(made + 1, "wrap")>>)
  /\ made' = made + 1
  /\ UNCHANGED <<args, composed, next, acts, stack, mq, tq, log, result, phase,
                 runs, count, ops>>

\* fork(), filter(condition), drop(condition) or errorBoundary(errorHandler)
\* with no stage: the composer it returns is builder 2
SubBuilderOp ==
  /\ Op
  /\ made' = 0
  /\ \/ /\ args' = <<ForkFn(2)>>
        /\ builders' = fork(builders, 1, <<>>)
     \/ \E c \in {"true", "false"} :
          /\ args' = <<Cond(c), Obj(2), skipMiddleware>>
          /\ builders' = filter(builders, 1, Cond(c), <<>>)
     \/ \E c \in {"true", "false"} :
          /\ args' = <<Cond(c), Obj(2), stopMiddleware>>
          /\ builders' = drop(builders, 1, Cond(c), <<>>)
     \/ /\ args' = <<BoundaryFn(2, ErrorHandler("swallow"))>>
        /\ builders' = errorBoundary(builders, 1, ErrorHandler("swallow"), <<>>)
  /\ OpFrame

\* use(stage) on the returned composer, later than the combinator call; args
\* keeps the calls made on it
UseLate ==
  /\ phase = "build"
  /\ composed = None
  /\ ops = 1
  /\ Len(builders) >= 2
  /\ made < MaxStages
  /\ \E b \in {"wrap", "throwS"} :
       /\ builders' = use(builders, 2, <<Stage(made + 1, b)>>)
       /\ args' = Append(args, T("use", 2, "", <<Stage(made + 1, b)>>, <<>>, <<>>))
  /\ made' = made + 1
  /\ UNCHANGED <<composed, next, acts, stack, mq, tq, log, result, phase,
                 runs, count, ops>>

\* filter(condition, stage) or drop(condition, stage) chained on the returned
\* composer, later than the combinator call
ChainLate ==
  /\ phase = "build"
  /\ composed = None
  /\ ops = 1
  /\ Len(builders) = 2
  /\ made < MaxStages
  /\ \E c \in {"true", "false"} :
       LET ms == <<Stage(made + 1, "wrap")>>
       IN \/ /\ builders' = filter(builders, 2, Cond(c), ms)
             /\ args' = Append(args, T("filter", 2, c, ms, <<>>, <<>>))
          \/ /\ builders' = drop(builders, 2, Cond(c), ms)
             /\ args' = Append(args, T("drop", 2, c, ms, <<>>, <<>>))
  /\ made' = made + 1
  /\ UNCHANGED <<composed, next, acts, stack, mq, tq, log, result, phase,
                 runs, count, ops>>

\* composer.use(stage) after the combinator: the stage downstream of it
UseAfter ==
  /\ phase = "build"
  /\ composed = None
  /\ ops = 1
  /\ ops' = 2
  /\ \E b \in {"wrap", "stop"} :
       /\ builders' = use(builders, 1, <<Stage(made + 1, b)>>)
       /\ made' = made + 1
  /\ UNCHANGED <<args, composed, next, acts, stack, mq, tq, log, result, phase,
                 runs, count>>

\* composer.use(stage) after the fork, with a stage that may wait for timers
UseAfterTimed ==
  /\ phase = "build"
  /\ composed = None
  /\ ops = 1
  /\ ops' = 2
  /\ \E b \in {"wrap", "stop", "ticks"} :
       /\ builders' = use(builders, 1, <<Stage(made + 1, b)>>)
       /\ made' = made + 1
  /\ UNCHANGED <<args, composed, next, acts, stack, mq, tq, log, result, phase,
                 runs, count>>

\* what the stages around caught do
Failing == {"wrap", "throwS", "throwA"}

\* composer.use(stage) before the combinator
UseBefore ==
  /\ phase = "build"
  /\ composed = None
  /\ ops = 0
  /\ made = 0
  /\ \E b \in Failing :
       /\ args' = <<Stage(1, b)>>
       /\ builders' = use(builders, 1, <<Stage(1, b)>>)
       /\ made' = 1
  /\ UNCHANGED <<composed, next, acts, stack, mq, tq, log, result, phase,
                 runs, count, ops>>

\* composer.caught(errorHandler); args holds its function, then the stage
\* used before
CaughtOp ==
  /\ Op
  /\ \E e \in {"swallow", "rethrow"} :
       /\ args' = <<CaughtFn(ErrorHandler(e))>> \o args
       /\ builders' = caught(builders, 1, ErrorHandler(e))
  /\ UNCHANGED made
  /\ OpFrame

\* composer.use(stage) after the combinator, once or more
UseFailing ==
  /\ phase = "build"
  /\ composed = None
  /\ ops \in {1, 2}
  /\ ops' = 2
  /\ made < MaxStages
  /\ \E b \in Failing :
       /\ builders' = use(builders, 1, <<Stage(made + 1, b)>>)
       /\ made' = made + 1
  /\ UNCHANGED <<args, composed, next, acts, stack, mq, tq, log, result, phase,
                 runs, count>>

\* what the stages of the use tests do: they go on
Continuing == {"wrap", "ret"}

\* composer.use(...stages) on the composer, or on what the call before
\* returned; args holds the composer the call returned
UseMany ==
  /\ phase = "build"
  /\ composed = None
  /\ made < MaxStages
  /\ ops' = ops + 1
  /\ \E b \in {1} \cup {args[i].id : i \in 1..Len(args)} :
     \E n \in 1..(MaxStages - made) : \E bs \in [1..n -> Continuing] :
       /\ builders' = use(builders, b, Stages(made, bs))
       /\ args' = <<Obj(useResult(b))>>
       /\ made' = made + n
  /\ OpFrame

\* child.enter(parent) with the child's and the parent's handlers exchanged
enterReversed(bs, child, parent) == use(bs, child, <<bs[parent]>>)

\* child.enter(parent): parent.use(this.handler)
enter(bs, child, parent) == use(bs, parent, <<bs[child]>>)

\* what enter returns
enterResult(child, parent) == parent

\* a call the caller made: use(stage) on builder b, or clone() of builder b
Called(k, b, ms) == T(k, b, "", ms, <<>>, <<>>)

\* some composer uses a new stage; args keeps the calls made so far
UseOn ==
  /\ phase = "build"
  /\ composed = None
  /\ ops <= MaxStages
  /\ made < MaxStages
  /\ ops' = ops + 1
  /\ \E b \in 1..Len(builders) :
       /\ builders' = use(builders, b, <<Stage(made + 1, "wrap")>>)
       /\ args' = Append(args, Called("use", b, <<Stage(made + 1, "wrap")>>))
  /\ made' = made + 1
  /\ OpFrame

\* some composer is cloned
CloneOp ==
  /\ phase = "build"
  /\ composed = None
  /\ ops <= MaxStages
  /\ Len(builders) <= MaxSub
  /\ ops' = ops + 1
  /\ \E b \in 1..Len(builders) :
       /\ builders' = clone(builders, b)
       /\ args' = Append(args, Called("clone", b, <<>>))
  /\ UNCHANGED made
  /\ OpFrame

\* new Composer(): the child composer, builder 2
NewComposerOp ==
  /\ phase = "build"
  /\ composed = None
  /\ Len(builders) = 1
  /\ ComposerNew(builders, <<>>) # TypeError
  /\ builders' = Append(builders, ComposerNew(builders, <<>>))
  /\ args' = Append(args, Called("new", 0, <<>>))
  /\ UNCHANGED <<made, ops>>
  /\ OpFrame

\* one composer enters another; args keeps the parent and what enter returned
EnterOp ==
  /\ phase = "build"
  /\ composed = None
  /\ ops <= MaxStages
  /\ ops' = ops + 1
  /\ \E child \in 1..Len(builders) : \E parent \in 1..Len(builders) \ {child} :
       /\ builders' = enter(builders, child, parent)
       /\ args' = Append(args, Called("enter", child,
                                      <<Obj(parent), Obj(enterResult(child, parent))>>))
  /\ UNCHANGED made
  /\ OpFrame

\* two composers built from the same three stages and a stage downstream:
\* the first with enforce([1], [2], [3]), the second with
\* before([1], getAfterMiddleware([2], [3]))
EnforceAndNestedOp ==
  /\ Op
  /\ \E bs \in [1..3 -> {"wrap", "stop"}] :
       LET st == Stages(0, bs)
           down == <<Stage(4, "wrap")>>
           inner == getAfterMiddleware(<<st[2]>>, <<st[3]>>)
           first == use(enforce(builders, 1, <<st[1]>>, <<st[2]>>, <<st[3]>>), 1, down)
           second == Append(first, ComposerNew(first, <<>>))
       IN /\ args' = <<getEnforceMiddleware(<<st[1]>>, <<st[2]>>, <<st[3]>>),
                       getBeforeMiddleware(<<st[1]>>, <<inner>>)>>
          /\ builders' = use(before(second, 2, Arr(<<st[1]>>), inner), 2, down)
          /\ made' = 4
  /\ OpFrame

\* the caller calls wrapMiddlewareNextCall(ctx, stage) itself; args keeps
\* the stage
WrapCallOp ==
  /\ phase \in {"build", "idle"}
  /\ composed = None
  /\ runs < MaxRuns
  /\ \E b \in Behaviours :
       /\ args' = <<Stage(1, b)>>
       /\ Set(Push(Fresh, Act("wrapcall", Stage(1, b), NewCtx, NoNext)))
  /\ phase' = "run"
  /\ made' = 1
  /\ ops' = 1
  /\ UNCHANGED <<builders, composed, next, runs>>

\* compose(...stages) with stages that continue, at once or after a timer,
\* or stop
ComposeStagesOp ==
  /\ Op
  /\ \E n \in 1..MaxStages : \E bs \in [1..n -> {"wrap", "slow", "stop"}] :
       /\ args' = Stages(0, bs)
       /\ composed' = compose(Stages(0, bs))
       /\ made' = n
  /\ UNCHANGED <<builders, next, acts, stack, mq, tq, log, result, phase, runs,
                 count>>

\* the caller invokes the composed handler again, with another context, while
\* the first invocation is under way and no frame is running
ExecOverlap ==
  /\ phase = "run"
  /\ runs = 0
  /\ ops = 1
  /\ ops' = 2
  /\ stack = <<>>
  /\ composed \notin {None, TypeError}
  /\ Set(CallHandler(M, composed, MaxRuns + 1, next))
  /\ UNCHANGED <<builders, args, composed, next, phase, runs, made>>

\* use, tap, fork, filter, drop or errorBoundary on the first composer, which
\* has a stage or more, with a value that is no function, alone or after a
\* stage; args keeps the call
NotCallableOp ==
  /\ phase = "build"
  /\ composed = None
  /\ ops <= MaxStages
  /\ ops' = ops + 1
  /\ args # <<>>
  /\ \A i \in 1..Len(args) : args[i].k = "use"
  /\ \E ms \in {<<Value(1)>>, <<Stage(made + 1, "wrap"), Value(1)>>} :
       \/ /\ builders' = use(builders, 1, ms)
          /\ args' = Append(args, Called("useValue", 1, ms))
       \/ /\ builders' = tap(builders, 1, ms)
          /\ args' = Append(args, Called("tap", 1, ms))
       \/ /\ builders' = fork(builders, 1, ms)
          /\ args' = Append(args, Called("fork", 1, ms))
       \/ /\ builders' = filter(builders, 1, Cond("true"), ms)
          /\ args' = Append(args, Called("filter", 1, ms))
       \/ /\ builders' = drop(builders, 1, Cond("true"), ms)
          /\ args' = Append(args, Called("drop", 1, ms))
       \/ /\ builders' = errorBoundary(builders, 1, ErrorHandler("swallow"), ms)
          /\ args' = Append(args, Called("errorBoundary", 1, ms))
  /\ UNCHANGED made
  /\ OpFrame

\* composer.run(ctx) on each composer in turn: invocation k is of builder k
RunEach ==
  /\ phase \in {"build", "idle"}
  /\ composed = None
  /\ runs < Len(builders)
  /\ Set(CallHandler(Fresh, builders[runs + 1], NewCtx, noopNext))
  /\ phase' = "run"
  /\ UNCHANGED <<builders, args, composed, next, runs, made, ops>>

\* composer.middleware(ctx, next) on the built composer
Invoke ==
  /\ phase \in {"build", "idle"}
  /\ composed = None
  /\ ops >= 1
  /\ runs < (IF args[1].k \in {"boolean", "predicate"} /\ Len(builders) = 1
               THEN MaxInvocations
               ELSE MaxRuns)
  /\ Set(CallHandler(Fresh, builders[1], NewCtx, next))
  /\ phase' = "run"
  /\ UNCHANGED <<builders, args, composed, next, runs, made, ops>>

\* the caller invokes the composed handler: composed(ctx, next)
Exec ==
  /\ phase \in {"build", "idle"}
  /\ runs < MaxRuns
  /\ composed \notin {None, TypeError}
  /\ Set(CallHandler(Fresh, composed, NewCtx, next))
  /\ phase' = "run"
  /\ UNCHANGED <<builders, args, composed, next, runs, made, ops>>

\* composer.run(ctx): this.middleware(ctx, noopNext)
Run ==
  /\ phase \in {"build", "idle"}
  /\ runs < MaxRuns
  /\ composed = None
  /\ Set(CallHandler(Fresh, builders[1], NewCtx, noopNext))
  /\ phase' = "run"
  /\ UNCHANGED <<builders, args, composed, next, runs, made, ops>>

\* new Composer(); the caller holds a terminal continuation or none
Init ==
  /\ builders = <<ComposerNew(<<>>, <<>>)>>
  /\ args = <<>>
  /\ composed = None
  /\ next \in {Terminal, NoNext}
  /\ acts = <<>>
  /\ stack = <<>>
  /\ mq = <<>>
  /\ tq = <<>>
  /\ log = <<>>
  /\ result = NoR
  /\ phase = "build"
  /\ runs = 0
  /\ made = 0
  /\ ops = 0
  /\ count = 0

Engine ==
  \/ StageRun
  \/ ComposedRun
  \/ DispatchRun
  \/ SkipRun
  \/ Unwind
  \/ Resume
  \/ Timer
  \/ Quiesce

NextSelect ==
  \/ LazyOp
  \/ BranchOp
  \/ RouteOp
  \/ UseAfter
  \/ Invoke
  \/ StageRun
  \/ ComposedRun
  \/ DispatchRun
  \/ SkipRun
  \/ LazyRun
  \/ FactoryRun
  \/ Unwind
  \/ Resume
  \/ Quiesce

NextContext ==
  \/ LazyOp
  \/ BranchOp
  \/ ForkOp
  \/ ConcurrencyOp
  \/ BeforeOp
  \/ AfterOp
  \/ EnforceOp
  \/ ErrorBoundaryOp
  \/ UseSub
  \/ UseAfter
  \/ Invoke
  \/ StageRun
  \/ ComposedRun
  \/ DispatchRun
  \/ SkipRun
  \/ LazyRun
  \/ FactoryRun
  \/ WrapRun
  \/ BeforeRun
  \/ AfterRun
  \/ EnforceRun
  \/ ConcurrencyRun
  \/ ForkRun
  \/ ElemRun
  \/ ContRun
  \/ BoundaryRun
  \/ HandlerRun
  \/ Unwind
  \/ Resume
  \/ Quiesce

NextFilter ==
  \/ FilterOp
  \/ DropOp
  \/ UseSub
  \/ UseAfter
  \/ Invoke
  \/ StageRun
  \/ ComposedRun
  \/ DispatchRun
  \/ SkipRun
  \/ LazyRun
  \/ FactoryRun
  \/ Unwind
  \/ Resume
  \/ Quiesce

NextTap ==
  \/ TapOp
  \/ UseAfter
  \/ Invoke
  \/ StageRun
  \/ ComposedRun
  \/ DispatchRun
  \/ SkipRun
  \/ TapRun
  \/ Unwind
  \/ Resume
  \/ Quiesce

NextGate ==
  \/ BeforeOp
  \/ AfterOp
  \/ UseAfter
  \/ Invoke
  \/ StageRun
  \/ ComposedRun
  \/ DispatchRun
  \/ SkipRun
  \/ WrapRun
  \/ BeforeRun
  \/ AfterRun
  \/ Unwind
  \/ Resume
  \/ Quiesce

NextEnforce ==
  \/ EnforceListsOp
  \/ UseAfter
  \/ Invoke
  \/ StageRun
  \/ ComposedRun
  \/ DispatchRun
  \/ SkipRun
  \/ EnforceRun
  \/ Unwind
  \/ Resume
  \/ Quiesce

NextConcurrency ==
  \/ ConcurrencyTimedOp
  \/ UseAfter
  \/ Invoke
  \/ StageRun
  \/ ComposedRun
  \/ DispatchRun
  \/ SkipRun
  \/ WrapRun
  \/ ConcurrencyRun
  \/ ElemRun
  \/ Unwind
  \/ Resume
  \/ Timer
  \/ Quiesce

NextFork ==
  \/ ForkTimedOp
  \/ UseAfterTimed
  \/ Invoke
  \/ StageRun
  \/ ComposedRun
  \/ DispatchRun
  \/ SkipRun
  \/ ForkRun
  \/ ElemRun
  \/ Resume
  \/ Timer
  \/ Quiesce

NextCaught ==
  \/ UseBefore
  \/ CaughtOp
  \/ UseFailing
  \/ Invoke
  \/ StageRun
  \/ ComposedRun
  \/ DispatchRun
  \/ SkipRun
  \/ CaughtRun
  \/ HandlerRun
  \/ Unwind
  \/ Resume
  \/ Timer
  \/ Quiesce

NextExtend ==
  \/ SubBuilderOp
  \/ UseLate
  \/ ChainLate
  \/ Invoke
  \/ StageRun
  \/ ComposedRun
  \/ DispatchRun
  \/ SkipRun
  \/ LazyRun
  \/ FactoryRun
  \/ ForkRun
  \/ ElemRun
  \/ ContRun
  \/ BoundaryRun
  \/ HandlerRun
  \/ Unwind
  \/ Resume
  \/ Quiesce

NextTapExtend ==
  \/ TapOp
  \/ UseLate
  \/ Invoke
  \/ StageRun
  \/ ComposedRun
  \/ DispatchRun
  \/ SkipRun
  \/ TapRun
  \/ Unwind
  \/ Resume
  \/ Quiesce

NextEnter ==
  \/ NewComposerOp
  \/ UseOn
  \/ EnterOp
  \/ RunEach
  \/ StageRun
  \/ ComposedRun
  \/ DispatchRun
  \/ SkipRun
  \/ Resume
  \/ Quiesce

NextEquivalence ==
  \/ EnforceAndNestedOp
  \/ RunEach
  \/ StageRun
  \/ ComposedRun
  \/ DispatchRun
  \/ SkipRun
  \/ WrapRun
  \/ BeforeRun
  \/ AfterRun
  \/ EnforceRun
  \/ Resume
  \/ Quiesce

NextWrap ==
  \/ WrapCallOp
  \/ StageRun
  \/ WrapRun
  \/ Unwind
  \/ Resume
  \/ Timer
  \/ Quiesce

NextOverlap ==
  \/ ComposeStagesOp
  \/ Exec
  \/ ExecOverlap
  \/ StageRun
  \/ ComposedRun
  \/ DispatchRun
  \/ Resume
  \/ Timer
  \/ Quiesce

NextNotCallable ==
  \/ UseOn
  \/ NotCallableOp
  \/ Invoke
  \/ StageRun
  \/ ComposedRun
  \/ DispatchRun
  \/ SkipRun
  \/ TapRun
  \/ Unwind
  \/ Resume
  \/ Quiesce

NextBoundary ==
  \/ ErrorBoundaryFailingOp
  \/ UseSub
  \/ UseFailing
  \/ Invoke
  \/ StageRun
  \/ ComposedRun
  \/ DispatchRun
  \/ SkipRun
  \/ ContRun
  \/ BoundaryRun
  \/ HandlerRun
  \/ Unwind
  \/ Resume
  \/ Timer
  \/ Quiesce

NextNested ==
  \/ EnclosingOp
  \/ InnerBoundaryOp
  \/ Invoke
  \/ StageRun
  \/ ComposedRun
  \/ DispatchRun
  \/ SkipRun
  \/ ContRun
  \/ BoundaryRun
  \/ CaughtRun
  \/ HandlerRun
  \/ Unwind
  \/ Resume
  \/ Timer
  \/ Quiesce

NextClone ==
  \/ UseOn
  \/ CloneOp
  \/ RunEach
  \/ StageRun
  \/ ComposedRun
  \/ DispatchRun
  \/ SkipRun
  \/ Resume
  \/ Quiesce

NextUse ==
  \/ UseMany
  \/ Invoke
  \/ StageRun
  \/ ComposedRun
  \/ DispatchRun
  \/ SkipRun
  \/ Resume
  \/ Quiesce

NextCompose ==
  \/ ComposeCall
  \/ Exec
  \/ Run
  \/ Engine

SpecCompose == Init /\ [][NextCompose]_vars

\* one lazy, branch or route on a new composer, a stage after it, invocations
SpecSelect == Init /\ [][NextSelect]_vars

\* one filter or drop on a new composer, stages used after it on the composer
\* and on the one it returned, invocations
SpecFilter == Init /\ [][NextFilter]_vars

\* one fork, filter, drop or errorBoundary with no stage, stages used and a
\* filter or drop chained on the composer it returned, invocations
SpecExtend == Init /\ [][NextExtend]_vars

\* one tap on a new composer, stages used on the composer it returned,
\* invocations
SpecTapExtend == Init /\ [][NextTapExtend]_vars

\* a parent and a child composer, stages used on either, enter calls, one run
\* of each composer
SpecEnter == Init /\ [][NextEnter]_vars

\* enforce and the nesting of before and after over the same stages, one run
\* of each
SpecEquivalence == Init /\ [][NextEquivalence]_vars

\* direct calls of wrapMiddlewareNextCall, each with one stage
SpecWrap == Init /\ [][NextWrap]_vars

\* a composed handler invoked, and invoked again while the first invocation
\* is under way
SpecOverlap == Init /\ [][NextOverlap]_vars

\* stages used on a composer and one call with a value that is no function,
\* invocations
SpecNotCallable == Init /\ [][NextNotCallable]_vars

\* one tap on a new composer, a stage used after it, invocations
SpecTap == Init /\ [][NextTap]_vars

\* one before or after on a new composer, a stage used after it, invocations
SpecGate == Init /\ [][NextGate]_vars

\* one enforce on a new composer, a stage used after it, invocations
SpecEnforce == Init /\ [][NextEnforce]_vars

\* one concurrency on a new composer, a stage used after it, invocations
SpecConcurrency == Init /\ [][NextConcurrency]_vars

\* one fork on a new composer, a stage used after it, invocations
SpecFork == Init /\ [][NextFork]_vars

\* a stage or none, then caught, then stages, on a new composer; invocations
SpecCaught == Init /\ [][NextCaught]_vars

\* one errorBoundary on a new composer, stages used after it on the composer
\* and on the one it returned, invocations
SpecBoundary == Init /\ [][NextBoundary]_vars

\* caught or errorBoundary on a new composer, an errorBoundary inside it,
\* invocations
SpecNested == Init /\ [][NextNested]_vars

\* use and clone calls on a new composer and on its clones, then a run of each
SpecClone == Init /\ [][NextClone]_vars

\* use calls, each with one stage or more, on a new composer; invocations
SpecUse == Init /\ [][NextUse]_vars

\* one combinator with sub-chains on a new composer, stages used after it on
\* the composer and on the one the combinator returned, invocations
SpecContext == Init /\ [][NextContext]_vars

---------------------------------------------------------------------------
(* What an invocation did *)

\* the events of invocation k, as <<event, stage>> pairs
Observed(k) ==
  LET l == SelectSeq(log, LAMBDA e : e.run = k)
  IN [i \in 1..Len(l) |-> <<l[i].ev, l[i].id>>]

Times(k, ev, id) ==
  Cardinality({i \in 1..Len(log) :
                 log[i].run = k /\ log[i].ev = ev /\ log[i].id = id})

\* how the invocation ended for its caller: <<"ok", value>>, <<"err", error>>
\* (thrown or rejected), or <<"wait", _>> while its promise is pending
Outcome ==
  CASE result.t = "p" ->
         <<IF acts[result.p].st \in {"ok", "err"} THEN acts[result.p].st
           ELSE "wait", acts[result.p].val>>
    [] result.t = "throw" -> <<"err", result.v>>
    [] OTHER -> <<"ok", result.v>>

\* a direct compose(...) of stages was made and its invocation number runs is over
Ended == phase = "idle" /\ composed \notin {None, TypeError}

IsPrefix(s, t) == Len(s) <= Len(t) /\ s = SubSeq(t, 1, Len(s))

\* the nested-call log of n stages around a terminal continuation (t = 1) or none
Nested(n, t) ==
  [i \in 1..(2 * n + t) |->
     IF i <= n THEN <<"start", i>>
     ELSE IF t = 1 /\ i = n + 1 THEN <<"terminal", 0>>
     ELSE <<"end", 2 * n + t + 1 - i>>]

Wrapping == \A i \in 1..Len(args) : args[i] \in {Stage(i, "wrap"), Stage(i, "slow")}

\* C1: in a chain of n >= 1 stages that each run code, await the continuation
\* and run more code, one invocation runs the code before the continuation in
\* declaration order and the code after it in reverse order, around the
\* terminal continuation; at every moment the log is a prefix of that order.
C1_NestedCall ==
  (composed \notin {None, TypeError} /\ Len(args) >= 1 /\ Wrapping /\ phase # "build") =>
    LET want == Nested(Len(args), IF next = Terminal THEN 1 ELSE 0)
    IN /\ IsPrefix(Observed(runs + 1), want)
       /\ phase = "idle" => Observed(runs) = want

C1_Witness ==
  /\ Ended
  /\ args = <<Stage(1, "wrap"), Stage(2, "wrap"), Stage(3, "wrap")>>
  /\ next = NoNext
  /\ Observed(runs) = <<<<"start", 1>>, <<"start", 2>>, <<"start", 3>>,
                        <<"end", 3>>, <<"end", 2>>, <<"end", 3 - 2>>>>

\* the running frame is a stage that has just made its second call of next()
SecondCallReturned ==
  /\ phase = "run"
  /\ stack # <<>>
  /\ Top(M).k = "stage"
  /\ Top(M).h.b = "twice"
  /\ Top(M).pc = 5

\* C2: a stage's second call of its continuation within one invocation yields
\* a promise rejected with 'next() called multiple times', and no stage (nor
\* the terminal continuation) runs twice in one invocation.
C2_SingleUse ==
  /\ SecondCallReturned =>
       /\ Top(M).r.t = "p"
       /\ acts[Top(M).r.p].st = "err"
       /\ acts[Top(M).r.p].val = Multi
  /\ \A k \in 1..(runs + 1) :
       /\ Times(k, "terminal", 0) <= 1
       /\ \A id \in 1..made : Times(k, "start", id) <= 1

C2_Witness ==
  /\ SecondCallReturned
  /\ Top(M).h.id = 1
  /\ Len(args) >= 2
  /\ Times(runs + 1, "start", 2) = 1

\* stage k is the first that does not simply pass control on
Passing(k) ==
  /\ k \in 1..Len(args)
  /\ \A j \in 1..(k - 1) : args[j].k = "stage" /\ args[j].b \in {"wrap", "slow", "ret"}

NothingAfter(k) ==
  /\ Times(runs, "terminal", 0) = 0
  /\ \A id \in (k + 1)..made : Times(runs, "start", id) = 0

\* C3: when a stage completes without invoking its continuation (a user's
\* stage, or stopMiddleware) and the stages before it pass control on, no
\* later stage and not the terminal continuation runs, and the invocation
\* resolves.
C3_Halting ==
  \A k \in 1..Len(args) :
    (Ended /\ Passing(k) /\ args[k] \in {Stage(k, "stop"), stopMiddleware}) =>
      /\ NothingAfter(k)
      /\ Outcome = <<"ok", Und>>

C3_Witness ==
  /\ Ended
  /\ Len(args) = 3
  /\ Passing(2)
  /\ args[2] = stopMiddleware
  /\ next = Terminal
  /\ Times(runs, "start", 1) = 1

\* C4: when stage k throws E, synchronously or after an await, and every
\* earlier stage awaits or returns its continuation, the invocation fails
\* with E and no later stage and not the terminal continuation runs.
C4_ErrorPropagation ==
  \A k \in 1..Len(args) :
    (Ended /\ Passing(k) /\ args[k] \in {Stage(k, "throwS"), Stage(k, "throwA")}) =>
      /\ NothingAfter(k)
      /\ Outcome = <<"err", Err(k)>>

C4_Witness ==
  /\ Ended
  /\ Len(args) = 3
  /\ args[1].b = "wrap"
  /\ args[2].b = "throwA"
  /\ Outcome = <<"err", Err(2)>>

\* C5: compose() of no handlers invokes the terminal continuation exactly
\* once and runs nothing else, resolves when there is none; a builder made
\* with no stages resolves when run.
C5_ZeroHandlers ==
  /\ (Ended /\ args = <<>>) =>
       /\ Observed(runs) = IF next = Terminal THEN <<<<"terminal", 0>>>> ELSE <<>>
       /\ Outcome = <<"ok", Und>>
  /\ (phase = "idle" /\ composed = None) =>
       /\ Observed(runs) = <<>>
       /\ Outcome = <<"ok", Und>>

C5_Witness ==
  /\ Ended
  /\ args = <<>>
  /\ next = Terminal
  /\ Times(runs, "terminal", 0) = 1

C5_WitnessBuilder == phase = "idle" /\ composed = None /\ runs = 1

\* C6: compose(...handlers) throws a TypeError at composition time, returning
\* no handler and running nothing, exactly when some argument is no function.
C6_EagerValidation ==
  composed # None =>
    /\ composed = TypeError <=>
         \E i \in 1..Len(args) : args[i].k \in {"value", "obj"}
    /\ composed = TypeError => (log = <<>> /\ acts = <<>> /\ phase = "build")

C6_Witness ==
  /\ composed = TypeError
  /\ Len(args) = 3
  /\ args[1].k = "stage"
  /\ args[3].k = "obj"

C6_WitnessCallable ==
  /\ composed \notin {None, TypeError}
  /\ Len(args) = 3
  /\ phase = "idle"

---------------------------------------------------------------------------
(* lazy, branch, route *)

\* all the times event ev of id happened, over every invocation
Total(ev, id) ==
  Cardinality({i \in 1..Len(log) : log[i].ev = ev /\ log[i].id = id})

\* the invocations that are over
Over == 1..runs

\* an event of the invocation under way is never seen more than at its end
AtMostOnce(ev, id) == Times(runs + 1, ev, id) <= 1

\* invocation k went on downstream of the combinator: the stage used after it
\* ran, or else the caller's terminal continuation
WentOn(k) ==
  IF ops = 2 THEN Times(k, "start", made) = 1 ELSE Times(k, "terminal", 0) = 1

Downstream == ops = 2 \/ next = Terminal

IsBranch == composed = None /\ ops >= 1 /\ args[1].k \in {"boolean", "predicate"}

\* what the condition of the branch is on invocation k
Selected(k) ==
  CASE args[1].b \in {"true", "fnTrue"}   -> TRUE
    [] args[1].b \in {"false", "fnFalse"} -> FALSE
    [] OTHER                              -> k % 2 = 1

\* C8: branch(c, A, B) runs on each invocation A and not B when c is true, B
\* and not A when c is false; a predicate is called exactly once on every
\* invocation, with its context, and decides that invocation alone, so one that
\* alternates from true has run A (n + 1) div 2 times and B n div 2 times after
\* n invocations (5 and 4 after 9).
C8_BranchSelection ==
  IsBranch =>
    /\ \A k \in Over :
         /\ Times(k, "start", 1) = IF Selected(k) THEN 1 ELSE 0
         /\ Times(k, "start", 2) = IF Selected(k) THEN 0 ELSE 1
         /\ Times(k, "cond", 0) = IF args[1].k = "predicate" THEN 1 ELSE 0
    /\ AtMostOnce("start", 1) /\ AtMostOnce("start", 2) /\ AtMostOnce("cond", 0)
    /\ \A i \in 1..Len(log) : log[i].ev = "cond" => log[i].ctx = log[i].run
    /\ (phase = "idle" /\ args[1].b = "alt") =>
         /\ Total("start", 1) = (runs + 1) \div 2
         /\ Total("start", 2) = runs \div 2

C8_Witness ==
  /\ IsBranch
  /\ args[1] = Cond("alt")
  /\ phase = "idle"
  /\ runs = 9
  /\ Total("start", 1) = 5
  /\ Total("start", 2) = 4
  /\ Total("cond", 0) = 9

IsLazy == composed = None /\ ops >= 1 /\ args[1].k = "factory"

\* the stages the factory returns
Returned == ToArray(args[1].xs[1])

OnlyStages == \A i \in 1..Len(Returned) : Returned[i].k = "stage"

\* stage i of the returned sub-chain is reached: the ones before it go on
Reached(i) == \A j \in 1..(i - 1) : Returned[j].b \in {"wrap", "ret"}

\* C9: on every invocation the lazy factory is called exactly once, with the
\* context of that invocation (n invocations, n calls); the stages it returns
\* run in order as far as each goes on, and the continuation of the lazy
\* stage is invoked iff the returned sub-chain reaches its end.
C9_LazyResolution ==
  IsLazy =>
    /\ \A k \in Over :
         /\ Times(k, "factory", 1) = 1
         /\ OnlyStages =>
              /\ \A i \in 1..Len(Returned) :
                   Times(k, "start", i) = IF Reached(i) THEN 1 ELSE 0
              /\ Downstream => (WentOn(k) <=> Reached(Len(Returned) + 1))
    /\ AtMostOnce("factory", 1)
    /\ \A i \in 1..Len(log) : log[i].ev = "factory" => log[i].ctx = log[i].run
    /\ phase = "idle" => Total("factory", 1) = runs

C9_Witness ==
  /\ IsLazy
  /\ phase = "idle"
  /\ runs = 2
  /\ ops = 2
  /\ args[1].xs[1] = Arr(<<Stage(1, "wrap"), Stage(2, "ret")>>)
  /\ Total("factory", 1) = 2
  /\ WentOn(1) /\ WentOn(2)

C9_WitnessHalts ==
  /\ IsLazy
  /\ phase = "idle"
  /\ ops = 2
  /\ args[1].xs[1] = Stage(1, "stop")
  /\ Times(1, "start", 1) = 1
  /\ ~WentOn(1)

IsRoute == composed = None /\ ops >= 1 /\ args[1].k = "router"

\* the key the router returns, and the table, of the route under test
RouteKey == args[1].xs[1]
Table == args[2].xs

\* the key is defined and the table maps it to a stage
Hit == RouteKey # Und /\ RouteKey.id \in 1..Len(Table) /\ Table[RouteKey.id] # Und

C10_WitnessHit ==
  /\ IsRoute
  /\ phase = "idle"
  /\ RouteKey = Key(2)
  /\ Times(1, "start", 2) = 1
  /\ Times(1, "start", 1) = 0

C10_WitnessPassThrough ==
  /\ IsRoute
  /\ phase = "idle"
  /\ ops = 2
  /\ RouteKey = Und
  /\ args[3] = Und
  /\ WentOn(1)

---------------------------------------------------------------------------
(* the context *)

\* the events of functions that are given the context: the stages (before
\* and after their continuation), lazy factories, conditions, error handlers
Given == {"start", "end", "factory", "cond", "handler"}

\* the activations of functions that took the context as an argument
Takes == {"stage", "factory", "handler", "compose", "lazy", "wrapcall", "before",
          "after", "enforce", "concurrency", "fork", "boundary"}

\* C7: in the invocation of a composer's handler with context c, every stage
\* that runs, in the chain or in a sub-chain of lazy, branch, fork,
\* concurrency, before, after, enforce or errorBoundary, and every factory,
\* condition and error handler, gets c itself: the context of invocation k is
\* the k-th one, and no other value reaches a function of that invocation.
C7_ContextIdentity ==
  /\ \A i \in 1..Len(log) : log[i].ev \in Given => log[i].ctx = log[i].run
  /\ phase = "run" =>
       \A a \in 1..Len(acts) : acts[a].k \in Takes => acts[a].ctx = NewCtx

\* a stage of the composer errorBoundary returned and the error handler got
\* the context of the second invocation
C7_Witness ==
  /\ phase = "idle"
  /\ runs = 2
  /\ args[1].k = "boundary"
  /\ \E i, j \in 1..Len(log) :
       /\ log[i] = Ev("start", 1, 2, 2)
       /\ log[j] = Ev("handler", 1, 2, 2)

C7_WitnessFork ==
  /\ phase = "idle"
  /\ args[1].k = "fork"
  /\ made = 3
  /\ ops = 2
  /\ \A id \in 1..3 : \E i \in 1..Len(log) : log[i] = Ev("start", id, 1, 1)

C7_WitnessConcurrency ==
  /\ phase = "idle"
  /\ args[1].k = "concurrency"
  /\ \A id \in 1..2 : \E i \in 1..Len(log) : log[i] = Ev("end", id, 1, 1)

C7_WitnessGates ==
  /\ phase = "idle"
  /\ args[1].k \in {"before", "after", "enforce"}
  /\ \A id \in 1..2 : \E i \in 1..Len(log) : log[i] = Ev("start", id, 2, 2)

C7_WitnessLazy ==
  /\ phase = "idle"
  /\ args[1].k \in {"factory", "predicate"}
  /\ \E i, j \in 1..Len(log) :
       /\ log[i].ev \in {"factory", "cond"} /\ log[i].ctx = 2
       /\ log[j] = Ev("start", 1, 2, 2)

---------------------------------------------------------------------------
(* filter, drop *)

IsFilter == composed = None /\ ops >= 1 /\ Len(args) = 3 /\ args[2] = Obj(2)

\* the stages of the composer the combinator returned: all but the one used
\* after the combinator
SubIds == 1..(IF ops = 2 THEN made - 1 ELSE made)

\* invocation k ran nothing downstream of the combinator
Halted(k) ==
  /\ Times(k, "terminal", 0) = 0
  /\ ops = 2 => Times(k, "start", made) = 0

\* C11: filter(cond, S) and drop(cond, S) run S when cond holds; when it does
\* not, no stage of S runs, and filter passes control downstream while drop
\* stops the chain: no downstream stage and not the terminal continuation
\* runs, and the invocation resolves.
C11_FilterDrop ==
  IsFilter =>
    /\ \A k \in Over :
         /\ (Selected(k) /\ SubIds # {}) => Times(k, "start", 1) = 1
         /\ ~Selected(k) => \A id \in SubIds : Times(k, "start", id) = 0
         /\ (~Selected(k) /\ args[3] = skipMiddleware /\ Downstream) => WentOn(k)
         /\ (~Selected(k) /\ args[3] = stopMiddleware) => Halted(k)
    /\ (phase = "idle" /\ ~Selected(runs)) => Outcome = <<"ok", Und>>

\* drop with a false condition: the stage after it did not run
C11_Witness ==
  /\ IsFilter
  /\ phase = "idle"
  /\ args[1] = Cond("fnFalse")
  /\ args[3] = stopMiddleware
  /\ ops = 2
  /\ made = 2
  /\ runs = 1
  /\ log = <<Ev("cond", 0, 1, 1)>>

C11_WitnessFilter ==
  /\ IsFilter
  /\ phase = "idle"
  /\ args[1] = Cond("alt")
  /\ args[3] = skipMiddleware
  /\ ops = 2
  /\ made = 2
  /\ runs = 2
  /\ Times(1, "start", 1) = 1
  /\ Times(2, "start", 1) = 0
  /\ WentOn(2)

---------------------------------------------------------------------------
(* tap *)

IsTap == composed = None /\ ops >= 1 /\ args[1].k = "stage"

\* no tapped stage throws
Completing == \A i \in 1..Len(args) : args[i].b # "throwS"

\* in invocation k the events of event names evs of the stages ids all come
\* before the first event of the stage used after the combinator
BeforeDownstream(k, ids, evs) ==
  \A i, j \in 1..Len(log) :
    (/\ log[i].run = k /\ log[j].run = k
     /\ log[i].id \in ids /\ log[i].ev \in evs
     /\ ops = 2 /\ log[j].id = made /\ log[j].ev = "start") => i < j

\* C12: tapped stages that complete, whether they call their continuation
\* never, once or twice, each run once and to their end; the calls do not
\* fail and run nothing; the continuation of the tap is then invoked, exactly
\* once an invocation and after the tapped stages are over.
C12_Tap ==
  IsTap =>
    /\ Completing =>
         /\ \A k \in Over :
              /\ \A i \in 1..Len(args) :
                   /\ Times(k, "start", i) = 1
                   /\ Times(k, "end", i) = IF args[i].b = "stop" THEN 0 ELSE 1
              /\ Downstream => WentOn(k)
         /\ phase = "idle" => Outcome = <<"ok", Und>>
    /\ \A k \in 1..(runs + 1) :
         /\ Times(k, "terminal", 0) <= 1
         /\ ops = 2 => Times(k, "start", made) <= 1
         /\ BeforeDownstream(k, 1..Len(args), {"start", "end"})

C12_Witness ==
  /\ IsTap
  /\ phase = "idle"
  /\ args = <<Stage(1, "twice"), Stage(2, "stop")>>
  /\ ops = 2
  /\ Times(1, "end", 1) = 1
  /\ Times(1, "start", 2) = 1
  /\ WentOn(1)

---------------------------------------------------------------------------
(* before, after *)

IsBefore == composed = None /\ ops >= 1 /\ args[1].k = "before"
IsAfter == composed = None /\ ops >= 1 /\ args[1].k = "after"

\* every stage of the list completes without invoking its continuation, or
\* one of them does
Stops(list) == \E i \in 1..Len(list) : list[i].b = "stop"

\* the stages of the list ran in invocation k
Ran(k, list) == \E i \in 1..Len(list) : Times(k, "start", list[i].id) > 0

\* C13: before(beforeStages, mainStages) with a before-stage that completes
\* without invoking its continuation runs no main stage and nothing
\* downstream, and resolves.
C13_BeforeGating ==
  (IsBefore /\ Stops(args[1].xs)) =>
    /\ \A k \in 1..(runs + 1) : ~Ran(k, args[1].ys) /\ Halted(k)
    /\ phase = "idle" => Outcome = <<"ok", Und>>

\* C14: after(mainStages, afterStages) with a main stage that completes
\* without invoking its continuation runs no after-stage and nothing
\* downstream.
C14_AfterGating ==
  (IsAfter /\ Stops(args[1].xs)) =>
    \A k \in 1..(runs + 1) : ~Ran(k, args[1].ys) /\ Halted(k)

---------------------------------------------------------------------------
(* enforce *)

IsEnforce == composed = None /\ ops >= 1 /\ args[1].k = "enforce"

\* before ++ main ++ after, as the caller gave them
Concatenation == args[1].xs \o args[1].ys \o args[1].zs

\* every stage before position p of the concatenation invokes its continuation
Preceded(p) == \A q \in 1..(p - 1) : Concatenation[q].b = "wrap"

\* how often the stage id is to run: once for each of its positions that
\* only continuing stages precede
Due(id) ==
  Cardinality({p \in 1..Len(Concatenation) :
                 Concatenation[p].id = id /\ Preceded(p)})

\* the stage that ends the chain throws
Throws ==
  \E p \in 1..Len(Concatenation) : Preceded(p) /\ Concatenation[p].b = "throwS"

\* C15: in enforce(before, main, after) a stage runs exactly when every stage
\* before it in before ++ main ++ after invoked its continuation, and the
\* outer continuation exactly when all of them did; a before-stage that does
\* not continue is the only stage to run, of main = [m, m] with m not
\* continuing only the first m runs, and the result is undefined.
C15_EnforceHalting ==
  IsEnforce =>
    /\ \A k \in Over :
         /\ \A p \in 1..Len(Concatenation) :
              Times(k, "start", Concatenation[p].id) = Due(Concatenation[p].id)
         /\ Downstream => (WentOn(k) <=> Preceded(Len(Concatenation) + 1))
         /\ ~Preceded(Len(Concatenation) + 1) => Halted(k)
    /\ \A p \in 1..Len(Concatenation) :
         Times(runs + 1, "start", Concatenation[p].id) <= Due(Concatenation[p].id)
    /\ (phase = "idle" /\ ~Throws) => Outcome = <<"ok", Und>>

\* main = [m, m], m not continuing: before and the first m ran
C15_Witness ==
  /\ IsEnforce
  /\ phase = "idle"
  /\ runs = 1
  /\ next = Terminal
  /\ args[1].xs = <<Stage(1, "wrap")>>
  /\ args[1].ys = <<Stage(2, "stop"), Stage(2, "stop")>>
  /\ args[1].zs = <<Stage(3, "wrap")>>
  /\ Observed(1) = <<<<"start", 1>>, <<"start", 2>>, <<"end", 1>>>>
  /\ Outcome = <<"ok", Und>>

\* the before-stage does not continue: it alone ran
C15_WitnessBefore ==
  /\ IsEnforce
  /\ phase = "idle"
  /\ runs = 1
  /\ ops = 2
  /\ args[1].xs = <<Stage(1, "stop")>>
  /\ args[1].ys = <<Stage(2, "wrap")>>
  /\ Observed(1) = <<<<"start", 1>>>>
  /\ Outcome = <<"ok", Und>>

---------------------------------------------------------------------------
(* the phases of before and after *)

\* C16: in before and after, a stage of the first phase that awaits its
\* continuation and then runs more code has run to its end before a stage of
\* the second phase begins.
C16_PhaseOrdering ==
  (IsBefore \/ IsAfter) =>
    \A j \in 1..Len(log) :
      \A p \in 1..Len(args[1].xs), q \in 1..Len(args[1].ys) :
        (/\ args[1].xs[p].b = "wrap"
         /\ log[j].ev = "start"
         /\ log[j].id = args[1].ys[q].id) =>
          \E i \in 1..(j - 1) :
            log[i] = Ev("end", args[1].xs[p].id, log[j].ctx, log[j].run)

---------------------------------------------------------------------------
(* concurrency *)

IsConcurrency == composed = None /\ ops >= 1 /\ args[1].k = "concurrency"

\* the stages given to concurrency
Branches == args[1].xs

NoneThrows == \A i \in 1..Len(Branches) : Branches[i].b \notin {"throwS", "throwA"}
AllContinue == \A i \in 1..Len(Branches) : Branches[i].b \in {"wrap", "slow"}

\* C17: when no stage of concurrency(stages) throws, the outer continuation
\* is invoked, exactly once, if and only if every stage invoked its own
\* continuation; when one did not, nothing downstream runs and the
\* invocation still resolves.
C17_ConcurrencyGating ==
  (IsConcurrency /\ NoneThrows) =>
    /\ \A k \in Over :
         /\ Downstream => (WentOn(k) <=> AllContinue)
         /\ ~AllContinue => Halted(k)
    /\ \A k \in 1..(runs + 1) :
         /\ Times(k, "terminal", 0) <= 1
         /\ ops = 2 => Times(k, "start", made) <= 1
    /\ phase = "idle" => Outcome = <<"ok", Und>>

\* one of two stages does not continue: nothing ran downstream
C17_Witness ==
  /\ IsConcurrency
  /\ phase = "idle"
  /\ ops = 2
  /\ Branches = <<Stage(1, "wrap"), Stage(2, "stop")>>
  /\ Times(1, "end", 1) = 1
  /\ Times(1, "start", 2) = 1
  /\ Halted(1)
  /\ Outcome = <<"ok", Und>>

C17_WitnessAll ==
  /\ IsConcurrency
  /\ phase = "idle"
  /\ ops = 2
  /\ Branches = <<Stage(1, "wrap"), Stage(2, "slow")>>
  /\ WentOn(1)

\* the errors the stages given to concurrency throw
Thrown ==
  {Err(Branches[i].id) : i \in {j \in 1..Len(Branches) :
                                 Branches[j].b \in {"throwS", "throwA"}}}

\* a stage of the invocation under way has failed
SomeFailed == \E a \in 1..Len(acts) : acts[a].k = "wrapcall" /\ acts[a].st = "err"

\* the host has no job left to run before the next timer
Drained == phase = "run" /\ stack = <<>> /\ mq = <<>>

\* C18: when a stage of concurrency(stages) throws E, the invocation is
\* rejected with the error of a throwing stage as soon as the jobs that
\* follow the failure are done, before any timer another stage waits for,
\* and nothing downstream runs; it ends rejected with that error.
C18_ConcurrencyFailFast ==
  IsConcurrency =>
    /\ (Drained /\ SomeFailed) => (Outcome[1] = "err" /\ Outcome[2] \in Thrown)
    /\ (phase = "idle" /\ ~NoneThrows) => (Outcome[1] = "err" /\ Outcome[2] \in Thrown)
    /\ ~NoneThrows => \A k \in 1..(runs + 1) : Halted(k)

\* rejected with the error of stage 1 while stage 2 still waits for its timers
C18_Witness ==
  /\ IsConcurrency
  /\ Branches = <<Stage(1, "throwA"), Stage(2, "slow")>>
  /\ Drained
  /\ tq # <<>>
  /\ Outcome = <<"err", Err(1)>>
  /\ Times(1, "end", 2) = 0

\* stage 2 ran to its end after the rejection
C18_WitnessAfter ==
  /\ IsConcurrency
  /\ Branches = <<Stage(1, "throwA"), Stage(2, "slow")>>
  /\ phase = "idle"
  /\ runs = 1
  /\ Outcome = <<"err", Err(1)>>
  /\ Times(1, "end", 2) = 1

\* the activations of wrapMiddlewareNextCall in the invocation under way
Wrapped == {a \in 1..Len(acts) : acts[a].k = "wrapcall"}

\* the first events of invocation k are the starts of the stages, in order
StartedTogether(k) ==
  \A p \in 1..Len(Branches) :
    p <= Len(Observed(k)) => Observed(k)[p] = <<"start", Branches[p].id>>

\* C19: in concurrency(stages) every stage is started before the host gets
\* control back, so before the completion of any stage is awaited and before
\* anything else happens in the invocation; the outer continuation is invoked
\* only when every stage has settled, after all that the stages log.
C19_ConcurrencyStartGate ==
  IsConcurrency =>
    /\ \A k \in 1..(runs + 1) :
         /\ StartedTogether(k)
         /\ BeforeDownstream(k, 1..Len(Branches), {"start", "end"})
    /\ (phase = "run" /\ stack = <<>>) =>
         \A p \in 1..Len(Branches) : Times(runs + 1, "start", Branches[p].id) = 1
    /\ (phase = "run" /\ ~Halted(runs + 1)) =>
         /\ Cardinality(Wrapped) = Len(Branches)
         /\ \A a \in Wrapped : acts[a].st = "ok"

\* stage 2 has started while stage 1 waits for its first timer
C19_Witness ==
  /\ IsConcurrency
  /\ Branches = <<Stage(1, "slow"), Stage(2, "wrap")>>
  /\ Drained
  /\ Len(tq) = 1
  /\ Observed(runs + 1) = <<<<"start", 1>>, <<"start", 2>>, <<"end", 2>>>>

\* the stage after concurrency ran once both stages were over
C19_WitnessGate ==
  /\ IsConcurrency
  /\ Branches = <<Stage(1, "slow"), Stage(2, "wrap")>>
  /\ phase = "idle"
  /\ ops = 2
  /\ runs = 1
  /\ SubSeq(Observed(1), 1, 5) =
       <<<<"start", 1>>, <<"start", 2>>, <<"end", 2>>, <<"end", 1>>, <<"start", 3>>>>

---------------------------------------------------------------------------
(* fork *)

IsFork == composed = None /\ ops >= 1 /\ args[1].k = "fork"

\* the stages of the composer fork returned
Forked == builders[2].xs

\* the events of what is downstream of the fork: of the stage used after it
\* or else of the caller's terminal continuation
Outer == IF ops = 2 THEN {<<e, made>> : e \in {"start", "mark", "end"}}
                    ELSE {<<"terminal", 0>>}

\* its first event
OuterStart == IF ops = 2 THEN <<"start", made>> ELSE <<"terminal", 0>>

\* what the outer continuation logs before it first suspends or returns
FirstTurn == {OuterStart} \cup (IF next = Terminal THEN {<<"terminal", 0>>} ELSE {})

\* the place of the first event e in the log of invocation k, 0 if none
Place(k, e) ==
  LET o == Observed(k)
      at == {i \in 1..Len(o) : o[i] = e}
  IN IF at = {} THEN 0 ELSE CHOOSE i \in at : \A j \in at : i <= j

\* the log of the test: the downstream stage is 3, the forked stages 1 and 2
TestTrace ==
  <<<<"start", 3>>, <<"start", 1>>, <<"mark", 3>>, <<"mark", 1>>,
    <<"start", 2>>, <<"mark", 3>>, <<"end", 2>>, <<"end", 3>>>>

IsTest ==
  /\ IsFork
  /\ ops = 2
  /\ Forked = <<Stage(1, "late"), Stage(2, "pause")>>
  /\ builders[1].xs[2] = compose(<<Stage(3, "ticks")>>)

C20_WitnessEnd ==
  /\ IsFork
  /\ ops = 2
  /\ phase = "idle"
  /\ runs = 1
  /\ Forked = <<Stage(1, "wrap"), Stage(2, "wrap")>>
  /\ Observed(1) = <<<<"start", 3>>, <<"terminal", 0>>, <<"start", 1>>,
                     <<"start", 2>>, <<"end", 3>>, <<"end", 2>>, <<"end", 1>>>>

\* the reactions of Promise.all to its element i (1: next(), 2: the sub-chain)
ForkElem(i) == {a \in 1..Len(acts) : acts[a].k = "elem" /\ acts[a].idx = i}

\* element i of the fork's Promise.all is a settled promise
SettledElem(i) ==
  \E a \in ForkElem(i) : acts[a].on = 0 \/ acts[acts[a].on].st \in {"ok", "err"}

\* C21: when the outer continuation has resolved and the forked sub-chain
\* has not finished, the invocation completes as soon as the pending jobs are
\* done: it does not wait for the sub-chain.
C21_ForkNonBlocking ==
  (IsFork /\ Drained /\ SettledElem(1) /\ ForkElem(2) # {} /\ ~SettledElem(2)) =>
    Outcome[1] # "wait"

---------------------------------------------------------------------------
(* caught *)

\* the functions a composed handler runs, in order
RECURSIVE Leaves(_)
Leaves(t) ==
  IF t.k # "compose" THEN <<t>>
  ELSE LET RECURSIVE cat(_)
           cat(i) == IF i > Len(t.xs) THEN <<>> ELSE Leaves(t.xs[i]) \o cat(i + 1)
       IN cat(1)

\* the pipeline of the builder: what use, and the combinators by use, added
Pipeline == SelectSeq(Leaves(builders[1]), LAMBDA t : t.k # "skip")

IsCaught == composed = None /\ ops >= 1 /\ args[1].k = "caught"

\* the stages of the pipeline, in the order of their use
Added == SelectSeq(Pipeline, LAMBDA t : t.k = "stage")

\* the places among them where a stage throws
Throwing == {i \in 1..Len(Added) : Added[i].b \in {"throwS", "throwA"}}

\* the place of the first of them: every stage before it awaits its continuation
FirstThrowing == CHOOSE i \in Throwing : \A j \in Throwing : i <= j

\* the place caught was called at: after Len(args) - 1 stages
CaughtAt == Len(args)

\* the events ev of invocation k
Events(k, ev) == SelectSeq(log, LAMBDA e : e.run = k /\ e.ev = ev)

\* how often the error handler was called in invocation k
Handled(k) ==
  Cardinality({i \in 1..Len(log) : log[i].run = k /\ log[i].ev = "handler"})

\* C22: with stages that await their continuation up to the first that
\* throws E: when that stage was added after caught(handler), handler is
\* called once an invocation, with E, and the invocation resolves if the
\* handler returns (it fails with what the handler throws); when it was added
\* before, handler is not called and the invocation fails with E.
C22_CaughtScope ==
  (IsCaught /\ Throwing # {}) =>
    LET E == Added[FirstThrowing].id
        guarded == CaughtAt <= FirstThrowing
    IN /\ \A k \in 1..(runs + 1) :
            /\ Handled(k) <= (IF guarded THEN 1 ELSE 0)
            /\ Handled(k) = Times(k, "handler", E)
       /\ \A k \in Over : Handled(k) = (IF guarded THEN 1 ELSE 0)
       /\ (phase = "idle" /\ runs >= 1) =>
            Outcome = IF guarded /\ args[1].xs[1].b = "swallow"
                        THEN <<"ok", Und>> ELSE <<"err", Err(E)>>

\* the second stage after caught threw after an await: the handler got it
C22_Witness ==
  /\ IsCaught
  /\ phase = "idle"
  /\ runs = 2
  /\ Len(Added) = 2
  /\ CaughtAt = 1
  /\ Added = <<Stage(1, "wrap"), Stage(2, "throwA")>>
  /\ Events(1, "handler") = <<Ev("handler", 2, 1, 1)>>
  /\ Events(2, "handler") = <<Ev("handler", 2, 2, 2)>>
  /\ Outcome = <<"ok", Und>>

\* the stage before caught threw: the handler was not called
C22_WitnessBefore ==
  /\ IsCaught
  /\ phase = "idle"
  /\ runs = 1
  /\ CaughtAt = 2
  /\ FirstThrowing = 1
  /\ Len(Added) = 2
  /\ Handled(1) = 0
  /\ Outcome = <<"err", Err(1)>>

---------------------------------------------------------------------------
(* errorBoundary *)

IsBoundary == composed = None /\ ops >= 1 /\ args[1].k = "boundary"

\* the stages errorBoundary protects: those of the composer it returned
Protected == SelectSeq(Leaves(builders[2]), LAMBDA t : t.k = "stage")

\* the places among them of the stages that do not call their continuation
Ending == {i \in 1..Len(Protected) : Protected[i].b \notin {"wrap", "wrapThrow"}}

\* how many of them run: up to the first that does not call its continuation
Reach ==
  IF Ending = {} THEN Len(Protected) ELSE CHOOSE i \in Ending : \A j \in Ending : i <= j

\* the places of the stages that run and throw: the one the sub-chain ends
\* at, and those that throw once their continuation has returned
Throwers ==
  {i \in 1..Reach : Protected[i].b \in {"throwS", "throwA", "wrapThrow"}}

\* a protected stage throws, and the sub-chain reaches it
InnerThrows == Throwers # {}

\* the stage whose error leaves the sub-chain: the innermost that throws
LastRun == Protected[CHOOSE i \in Throwers : \A j \in Throwers : j <= i]

\* C23: when a stage protected by errorBoundary(handler, S) throws E in the
\* invocation with context k, handler is called exactly once in it, with a
\* BoundaryError whose error is E and whose ctx and context are both k.
C23_BoundaryPayload ==
  (IsBoundary /\ InnerThrows) =>
    /\ \A k \in Over :
         /\ Events(k, "handler") = <<Ev("handler", LastRun.id, k, k)>>
         /\ Events(k, "alias") = <<Ev("alias", LastRun.id, k, k)>>
    /\ Len(Events(runs + 1, "handler")) <= 1

\* the second invocation: the handler got the second stage's error and the
\* second context
C23_Witness ==
  /\ IsBoundary
  /\ phase = "idle"
  /\ runs = 2
  /\ Protected = <<Stage(1, "wrap"), Stage(2, "throwS")>>
  /\ Events(2, "handler") = <<Ev("handler", 2, 2, 2)>>
  /\ Events(2, "alias") = <<Ev("alias", 2, 2, 2)>>

\* the stages used on the composer after errorBoundary
Outside == SelectSeq(Leaves(builders[1]), LAMBDA t : t.k = "stage")

\* what the error handler does
Handler == args[1].xs[1].b

\* how many times invocation k ran what follows the boundary in the outer
\* chain: the first stage used after it, or else the terminal continuation
Resumed(k) ==
  IF Outside # <<>> THEN Times(k, "start", Outside[1].id)
  ELSE Times(k, "terminal", 0)

\* C24: after a protected stage threw, a handler that invokes its
\* continuation makes the outer chain go on with its next stage, once; when
\* the handler returns without invoking it nothing of the outer chain runs,
\* even if a protected stage had invoked its continuation before the error,
\* and the invocation resolves.
C24_BoundaryResume ==
  (IsBoundary /\ InnerThrows) =>
    /\ Handler = "resume" =>
         /\ \A k \in Over : Resumed(k) = (IF Outside = <<>> /\ next # Terminal THEN 0 ELSE 1)
         /\ Resumed(runs + 1) <= 1
    /\ Handler = "swallow" =>
         /\ \A k \in 1..(runs + 1) :
              /\ Times(k, "terminal", 0) = 0
              /\ \A i \in 1..Len(Outside) : Times(k, "start", Outside[i].id) = 0
         /\ (phase = "idle" /\ runs >= 1) => Outcome = <<"ok", Und>>

\* the handler resumed: the stage after the boundary ran
C24_Witness ==
  /\ IsBoundary
  /\ InnerThrows
  /\ Handler = "resume"
  /\ phase = "idle"
  /\ runs = 1
  /\ Len(Outside) = 1
  /\ Observed(1) = <<<<"start", 1>>, <<"handler", 1>>, <<"alias", 1>>,
                     <<"start", Outside[1].id>>, <<"terminal", 0>>,
                     <<"end", Outside[1].id>>>>

\* the protected stage invoked its continuation, then threw; the handler
\* returned: nothing ran downstream
C24_WitnessReturn ==
  /\ IsBoundary
  /\ Protected = <<Stage(1, "wrapThrow")>>
  /\ Handler = "swallow"
  /\ phase = "idle"
  /\ runs = 1
  /\ Len(Outside) = 1
  /\ Observed(1) = <<<<"start", 1>>, <<"handler", 1>>, <<"alias", 1>>>>
  /\ Outcome = <<"ok", Und>>

\* an errorBoundary was put inside a caught or an errorBoundary
IsNested == composed = None /\ ops = 2 /\ Len(args) = 2 /\ args[2].k = "boundary"

\* what the handler of the inner errorBoundary does
InnerHandler == args[2].xs[1].b

\* the stage the inner errorBoundary protects is the last made; it throws
InnerError == made

\* C25 as stated: after a protected stage threw E, when the handler returns
\* without invoking its continuation E goes on to the enclosing handler, or
\* the invocation fails with E.
C25_NonResumePropagation ==
  (IsNested /\ InnerHandler = "swallow" /\ phase = "idle" /\ runs >= 1) =>
    \/ Times(runs, "enclosing", InnerError) = 1
    \/ Outcome = <<"err", Err(InnerError)>>

\* C25, amended: after a protected stage threw E, when the handler returns
\* without invoking its continuation and without throwing, E stops at the
\* boundary: the handler of the enclosing caught or errorBoundary is never
\* called and the invocation resolves.
C25_BoundarySwallows ==
  (IsNested /\ InnerHandler = "swallow") =>
    /\ \A k \in 1..(runs + 1) : Events(k, "enclosing") = <<>>
    /\ \A k \in Over : Events(k, "handler") = <<Ev("handler", InnerError, k, k)>>
    /\ (phase = "idle" /\ runs >= 1) => Outcome = <<"ok", Und>>

\* the inner handler returned: the enclosing one was not called
C25_Witness ==
  /\ IsNested
  /\ InnerHandler = "swallow"
  /\ args[1].k = "caught"
  /\ phase = "idle"
  /\ runs = 1
  /\ Observed(1) = <<<<"start", 1>>, <<"handler", 1>>, <<"alias", 1>>>>
  /\ Outcome = <<"ok", Und>>

\* the places among the stages used after the boundary of those that throw
OutsideThrowing ==
  {i \in 1..Len(Outside) : Outside[i].b \in {"throwS", "throwA"}}

\* the first of them: the stages before it await their continuation
OutsideError ==
  Outside[CHOOSE i \in OutsideThrowing : \A j \in OutsideThrowing : i <= j].id

\* the protected sub-chain goes through to its continuation without an error
InnerPasses == Ending = {} /\ Throwers = {}

\* C26: an error thrown by a stage used after errorBoundary(handler, S) on
\* the parent is never given to handler, whatever S and handler do; when S
\* goes through, handler is not called at all and the invocation fails with
\* that error.
C26_BoundaryScope ==
  IsBoundary =>
    /\ \A k \in 1..(runs + 1) : \A i \in 1..Len(Outside) :
         Times(k, "handler", Outside[i].id) = 0
    /\ (InnerPasses /\ OutsideThrowing # {}) =>
         /\ \A k \in 1..(runs + 1) : Events(k, "handler") = <<>>
         /\ (phase = "idle" /\ runs >= 1) => Outcome = <<"err", Err(OutsideError)>>

\* the stage after the boundary threw after an await: the handler was not
\* called and the invocation failed
C26_Witness ==
  /\ IsBoundary
  /\ InnerPasses
  /\ Len(Protected) = 1
  /\ Outside = <<Stage(2, "wrap"), Stage(3, "throwA")>>
  /\ phase = "idle"
  /\ runs = 1
  /\ Observed(1) = <<<<"start", 1>>, <<"end", 1>>, <<"start", 2>>, <<"start", 3>>>>
  /\ Outcome = <<"err", Err(3)>>

\* an errorBoundary alone on a new composer
IsAlone == composed = None /\ ops = 2 /\ Len(args) = 1 /\ args[1].k = "boundary"

\* what the handler of the errorBoundary does: of the inner one when nested
Thrown27 == args[Len(args)].xs[1].b

\* the error X the handler throws: the one it got, or its own
Rethrown == IF Thrown27 = "raise" THEN Err(0) ELSE Err(InnerError)

\* C27: when the handler of an errorBoundary throws X, the outer
\* continuation is not invoked; inside a caught or another errorBoundary the
\* handler of that one is called once, with X, and the invocation ends as it
\* decides; with nothing around the boundary the invocation fails with X.
C27_BoundaryRethrow ==
  ((IsNested \/ IsAlone) /\ Thrown27 \in {"rethrow", "raise"}) =>
    /\ \A k \in 1..(runs + 1) :
         /\ Times(k, "terminal", 0) = 0
         /\ Len(Events(k, "enclosing")) <= 1
    /\ \A k \in Over :
         Events(k, "enclosing") =
           IF IsNested THEN <<Ev("enclosing", Rethrown.id, k, k)>> ELSE <<>>
    /\ (phase = "idle" /\ runs >= 1) =>
         Outcome = IF IsNested /\ args[1].xs[1].b = "swallow"
                     THEN <<"ok", Und>> ELSE <<"err", Rethrown>>

\* the handler of the inner boundary threw its own error; the handler of the
\* enclosing boundary got it
C27_Witness ==
  /\ IsNested
  /\ args[1].k = "boundary"
  /\ Thrown27 = "raise"
  /\ phase = "idle"
  /\ runs = 1
  /\ next = Terminal
  /\ Events(1, "handler") = <<Ev("handler", 2, 1, 1)>>
  /\ Events(1, "enclosing") = <<Ev("enclosing", 0, 1, 1)>>

\* nothing around the boundary: the invocation failed with the error thrown
C27_WitnessAlone ==
  /\ IsAlone
  /\ Thrown27 = "raise"
  /\ phase = "idle"
  /\ runs = 1
  /\ next = Terminal
  /\ Events(1, "handler") = <<Ev("handler", 1, 1, 1)>>
  /\ Outcome = <<"err", Err(0)>>

---------------------------------------------------------------------------
(* clone, use *)

\* the stages each composer should run, in order, after the calls from the
\* i-th on, ls being what they should run before it: use adds its stages
\* to the composer it is called on, clone makes a composer with the stages the
\* cloned one has then
RECURSIVE Replay(_, _)
Replay(i, ls) ==
  IF i > Len(args) THEN ls
  ELSE Replay(i + 1,
              IF args[i].k = "use"
                THEN [ls EXCEPT ![args[i].id] = @ \o args[i].xs]
                ELSE Append(ls, ls[args[i].id]))

Expected == Replay(1, <<<<>>>>)

\* the stages invocation k started, in order
Starts(k) ==
  LET l == SelectSeq(log, LAMBDA e : e.run = k /\ e.ev = "start")
  IN [i \in 1..Len(l) |-> l[i].id]

IsCloning ==
  /\ composed = None
  /\ args # <<>>
  /\ \A i \in 1..Len(args) : args[i].k \in {"use", "clone"}

\* C28: after any use and clone calls, each composer runs the stages it
\* used itself, preceded for a clone by the stages its original had at the
\* time of clone(): no use on one composer changes what another runs.
C28_CloneIndependence ==
  IsCloning =>
    /\ Len(builders) = Len(Expected)
    /\ \A k \in Over :
         /\ Starts(k) = [i \in 1..Len(Expected[k]) |-> Expected[k][i].id]
         /\ \A i \in 1..Len(Expected[k]) : Times(k, "end", Expected[k][i].id) = 1
    /\ phase = "run" => IsPrefix(Starts(runs + 1),
                                 [i \in 1..Len(Expected[runs + 1]) |->
                                    Expected[runs + 1][i].id])

\* use, clone, then a use on each: the original ran stages 1 and 2, the clone
\* 1 and 3
C28_Witness ==
  /\ IsCloning
  /\ phase = "idle"
  /\ runs = 2
  /\ Len(builders) = 2
  /\ Starts(1) = <<1, 2>>
  /\ Starts(2) = <<1, 3>>
  /\ args[2] = Called("clone", 1, <<>>)

IsUsing == composed = None /\ ops >= 1 /\ args[1].k = "obj"

\* the stages of the composer, as it holds them
Used == SelectSeq(Leaves(builders[1]), LAMBDA t : t.k = "stage")

\* C29: after use calls with one stage or more each, all stages going on,
\* every invocation runs each stage added exactly once, in the order they
\* were added (the stages are numbered in that order), then the terminal
\* continuation, and resolves; each call returns the composer it was called
\* on.
C29_UseAccumulation ==
  IsUsing =>
    /\ args = <<Obj(1)>>
    /\ Len(Used) = made
    /\ \A k \in Over :
         /\ Starts(k) = [i \in 1..made |-> i]
         /\ \A i \in 1..made :
              Times(k, "end", i) = (IF Used[i].b = "wrap" THEN 1 ELSE 0)
         /\ Times(k, "terminal", 0) = (IF next = Terminal THEN 1 ELSE 0)
    /\ IsPrefix(Starts(runs + 1), [i \in 1..made |-> i])
    /\ (phase = "idle" /\ runs >= 1) => Outcome = <<"ok", Und>>

\* use(a), then use(b, c): a, b and c ran in that order
C29_Witness ==
  /\ IsUsing
  /\ ops = 2
  /\ made = 3
  /\ builders[1].xs[2] = compose(<<Stage(2, "wrap"), Stage(3, "ret")>>)
  /\ phase = "idle"
  /\ runs = 2
  /\ next = Terminal
  /\ Observed(2) = <<<<"start", 1>>, <<"start", 2>>, <<"start", 3>>,
                     <<"terminal", 0>>, <<"end", 2>>, <<"end", 1>>>>


(* sub-builder extension *)

\* the calls made on the returned composer, in the order they were made
Late == SelectSeq(args, LAMBDA t : t.k \in {"use", "filter", "drop"})

IsExtend == args # <<>> /\ args[1].k \in {"fork", "boundary", "boolean"}

\* the parent's combinator selects its sub-chain
SubSelected == args[1].k \in {"fork", "boundary"} \/ args[1].b = "true"

\* the stages of the calls i.. that start when the sub-chain is run, reached
\* telling whether the chain gets as far as call i
RECURSIVE LateStarts(_, _)
LateStarts(i, reached) ==
  IF i > Len(Late) THEN {}
  ELSE LET t == Late[i]
           taken == t.k = "use" \/ t.b = "true"
           passes == CASE t.k = "use"    -> t.xs[1].b = "wrap"
                       [] t.k = "filter" -> TRUE
                       [] t.k = "drop"   -> t.b = "true"
       IN (IF reached /\ taken THEN {t.xs[1].id} ELSE {})
            \cup LateStarts(i + 1, reached /\ passes)

\* C30: a stage added with use, or with a chained filter or drop, to the
\* composer that fork, filter, drop or errorBoundary returned, after that
\* call, is part of the sub-chain the parent runs: in every invocation made
\* later the stage starts exactly once when the sub-chain is selected and the
\* calls before it let the chain reach it, and never otherwise
C30_SubBuilderExtension ==
  IsExtend =>
    \A k \in Over : \A id \in 1..made :
      Times(k, "start", id) =
        (IF SubSelected /\ id \in LateStarts(1, TRUE) THEN 1 ELSE 0)

\* filter(true), then use, a chained filter(true, stage) and use: all three run
C30_Witness ==
  /\ IsExtend
  /\ args[1] = Cond("true")
  /\ args[3] = skipMiddleware
  /\ [i \in 1..Len(Late) |-> Late[i].k] = <<"use", "filter", "use">>
  /\ Late[2].b = "true"
  /\ runs >= 1
  /\ Starts(1) = <<1, 2, 3>>

\* fork(), then two stages used on the forked composer
C30_WitnessFork ==
  /\ IsExtend
  /\ args[1].k = "fork"
  /\ Len(Late) = 2
  /\ runs >= 1
  /\ Starts(1) = <<1, 2>>

\* errorBoundary(handler), then a throwing stage used on the composer: the
\* handler is called with its error
C30_WitnessBoundary ==
  /\ IsExtend
  /\ args[1].k = "boundary"
  /\ Len(Late) = 1
  /\ Late[1].xs[1].b = "throwS"
  /\ runs >= 1
  /\ Times(1, "start", 1) = 1
  /\ Times(1, "handler", 1) = 1

\* drop(true), then a chained drop(true, stage) on the composer
C30_WitnessDrop ==
  /\ IsExtend
  /\ args[1] = Cond("true")
  /\ args[3] = stopMiddleware
  /\ Len(Late) = 1
  /\ Late[1].k = "drop"
  /\ Late[1].b = "true"
  /\ runs >= 1
  /\ Starts(1) = <<1>>


(* tap sub-builder *)

\* the stages tap was given
Tapped == SelectSeq(args, LAMBDA t : t.k = "stage")

IsTapExtend == Tapped # <<>> /\ Late # <<>> /\ Len(builders) = 2

\* C31: a stage added with use to the composer that tap returned, after the
\* tap call, is run when the parent is run afterwards: with no tapped stage
\* throwing, the first stage added so starts once in every invocation
C31_TapExtension ==
  (IsTapExtend /\ \A i \in 1..Len(Tapped) : Tapped[i].b # "throwS") =>
    \A k \in Over : Times(k, "start", Late[1].xs[1].id) = 1

\* what the code does: the parent runs the tapped stages and no stage that
\* was used on the returned composer later
C31_TapSnapshot ==
  IsTapExtend =>
    \A k \in Over : \A i \in 1..Len(Late) :
      Times(k, "start", Late[i].xs[1].id) = 0

C31_WitnessSnapshot ==
  /\ IsTapExtend
  /\ Tapped = <<Stage(1, "wrap")>>
  /\ Len(Late) = 2
  /\ runs = 2
  /\ Starts(1) = <<1>>
  /\ Starts(2) = <<1>>
  /\ Outcome[1] = "ok"


(* enter *)

\* the stages each composer should run after the calls from the i-th on, ls
\* being what they should run before it: enter adds to the parent the stages
\* the child has then, and leaves the child as it is
RECURSIVE Graft(_, _)
Graft(i, ls) ==
  IF i > Len(args) THEN ls
  ELSE Graft(i + 1,
             CASE args[i].k = "use" -> [ls EXCEPT ![args[i].id] = @ \o args[i].xs]
               [] args[i].k = "new" -> Append(ls, <<>>)
               [] OTHER -> [ls EXCEPT ![args[i].xs[1].id] = @ \o ls[args[i].id]])

Grafted == Graft(1, <<<<>>>>)

IsEntering ==
  /\ composed = None
  /\ \E i \in 1..Len(args) : args[i].k = "enter"
  /\ \A i \in 1..Len(args) : args[i].k \in {"use", "new", "enter"}

\* C32: child.enter(parent) returns the parent, and after any use and enter
\* calls the parent runs its own stages with, at the place of each enter, the
\* stages the child had at that time; stages the child uses later are run by
\* the child only, and the child runs just the stages it used itself
C32_Enter ==
  IsEntering =>
    /\ Len(builders) = Len(Grafted)
    /\ \A i \in 1..Len(args) :
         args[i].k = "enter" => args[i].xs[2] = args[i].xs[1]
    /\ \A k \in Over :
         Starts(k) = [i \in 1..Len(Grafted[k]) |-> Grafted[k][i].id]
    /\ phase = "run" => IsPrefix(Starts(runs + 1),
                                 [i \in 1..Len(Grafted[runs + 1]) |->
                                    Grafted[runs + 1][i].id])

\* parent.use(1), child.use(2), child.enter(parent), child.use(3): the parent
\* ran 1 and 2, the child 2 and 3
C32_Witness ==
  /\ IsEntering
  /\ phase = "idle"
  /\ runs = 2
  /\ [i \in 1..Len(args) |-> args[i].k] \in
       {<<"use", "new", "use", "enter", "use">>, <<"new", "use", "use", "enter", "use">>}
  /\ args[4] = Called("enter", 2, <<Obj(1), Obj(1)>>)
  /\ Starts(1) = <<1, 2>>
  /\ Starts(2) = <<2, 3>>


(* no swallowing *)

IsGated == composed = None /\ ops >= 1 /\ args[1].k \in {"before", "after"}

\* a throwing stage of the list ms started in invocation k
Threw(k, ms) ==
  \E i \in 1..Len(ms) : ms[i].b = "throwS" /\ Times(k, "start", ms[i].id) >= 1

\* C33: outside caught and errorBoundary no error of a stage is swallowed:
\* when a stage that before or after runs throws, the invocation fails
\* rather than resolving
C33_NoSwallowing ==
  (IsGated /\ phase = "idle" /\ runs >= 1 /\ Threw(runs, args[1].xs \o args[1].ys)) =>
    Outcome[1] = "err"

\* what the code does for the second list of before and after: its stages'
\* errors do reach the caller
C33_SecondListFails ==
  (IsGated /\ phase = "idle" /\ runs >= 1 /\ Threw(runs, args[1].ys)) =>
    Outcome[1] = "err"

\* and for the first list: its stages' errors never reach the caller
C33_FirstListSwallowed ==
  (IsGated /\ phase = "idle" /\ runs >= 1 /\ Threw(runs, args[1].xs)
     /\ ~Threw(runs, args[1].ys)) =>
    Outcome[1] = "ok"

\* before(throwing stage, main): main ran and the invocation resolved
C33_WitnessSwallowed ==
  /\ IsGated
  /\ args[1] = getBeforeMiddleware(<<Stage(1, "throwS")>>, <<Stage(2, "wrap")>>)
  /\ phase = "idle"
  /\ runs = 1
  /\ Observed(1) = <<<<"start", 1>>, <<"start", 2>>, <<"end", 2>>>>
  /\ Outcome = <<"ok", Und>>


(* single use everywhere *)

\* a stage given to tap has just made its second call of the continuation
\* tap handed to it
TappedSecondCall ==
  /\ SecondCallReturned
  /\ \E i \in 1..Len(args) : args[i] = Top(M).h

\* C34: the second call of a continuation by the stage it was handed to is a
\* usage error wherever the continuation comes from: made by a stage given to
\* tap, it yields a promise rejected with 'next() called multiple times'
C34_UniversalSingleUse ==
  TappedSecondCall =>
    /\ Top(M).r.t = "p"
    /\ acts[Top(M).r.p].st = "err"
    /\ acts[Top(M).r.p].val = Multi

\* what the code does: the continuation of a tapped stage is noopNext, and
\* each call of it yields a promise resolved with undefined
C34_TapNoop ==
  TappedSecondCall =>
    /\ Top(M).r.t = "p"
    /\ acts[Top(M).r.p].st = "ok"
    /\ acts[Top(M).r.p].val = Und

\* tap(stage calling twice): the stage ended and the invocation resolved
C34_WitnessNoop ==
  /\ args = <<Stage(1, "twice")>>
  /\ Len(builders) = 2
  /\ phase = "idle"
  /\ runs = 1
  /\ Observed(1) = <<<<"start", 1>>, <<"end", 1>>>>
  /\ Outcome = <<"ok", Und>>


(* enforce as before and after *)

IsEquivalence ==
  /\ composed = None
  /\ Len(args) = 2
  /\ args[1].k = "enforce"
  /\ args[2].k = "before"

BothRan == IsEquivalence /\ phase = "idle" /\ runs = 2

\* C35: enforce(before, main, after) and before(before, [after(main, after)])
\* over the same stages start the same stages in the same order, the stage
\* downstream (the outer continuation) included, whichever stages invoke
\* their continuation
C35_EnforceDecomposition == BothRan => Starts(1) = Starts(2)

\* what the code does: the two agree when all three stages continue
C35_AgreeWhenContinuing ==
  (BothRan /\ \A p \in 1..3 : Concatenation[p].b = "wrap") =>
    /\ Starts(1) = <<1, 2, 3, 4>>
    /\ Starts(2) = <<1, 2, 3, 4>>

\* and the nesting runs the three stages whatever they do; only the last one
\* decides on the stage downstream
C35_NestingNeverGates ==
  BothRan =>
    Starts(2) = <<1, 2, 3>> \o (IF args[1].zs[1].b = "wrap" THEN <<4>> ELSE <<>>)

\* the before-stage does not continue: enforce ran it alone, the nesting ran
\* all stages and the one downstream
C35_WitnessDiffer ==
  /\ BothRan
  /\ args[1].xs = <<Stage(1, "stop")>>
  /\ Starts(1) = <<1>>
  /\ Starts(2) = <<1, 2, 3, 4>>


(* the observing helper *)

IsWrapCall == Len(args) = 1 /\ args[1].k = "stage" /\ acts # <<>> /\ acts[1].k = "wrapcall"

\* C36: wrapMiddlewareNextCall(context, handler) settles only when the
\* handler has run to its end; it resolves to true when the handler called
\* the continuation and to false when it never did, a second call of the
\* continuation yields a promise rejected with 'next() called multiple
\* times', and when the handler throws E, at once or after a timer, the
\* helper rejects with E
C36_ObservingHelper ==
  IsWrapCall =>
    LET b == args[1].b
        k == IF phase = "run" THEN runs + 1 ELSE runs
    IN /\ (result.t = "p" /\ Outcome[1] # "wait") =>
            /\ Times(k, "start", 1) = 1
            /\ b \in {"wrap", "slow"} => Times(k, "end", 1) = 1
            /\ Outcome = (CASE b \in {"wrap", "slow", "ret"} -> <<"ok", Bool(TRUE)>>
                            [] b = "stop" -> <<"ok", Bool(FALSE)>>
                            [] b = "twice" -> <<"err", Multi>>
                            [] OTHER -> <<"err", Err(1)>>)
       /\ phase = "idle" => (result.t = "p" /\ Outcome[1] # "wait")
       /\ SecondCallReturned =>
            /\ Top(M).r.t = "p"
            /\ acts[Top(M).r.p].st = "err"
            /\ acts[Top(M).r.p].val = Multi

\* a handler that never calls the continuation, then one that calls it after
\* a timer
C36_Witness ==
  /\ IsWrapCall
  /\ phase = "idle"
  /\ runs = 2
  /\ args[1].b = "slow"
  /\ Observed(1) = <<<<"start", 1>>>>
  /\ Observed(2) = <<<<"start", 1>>, <<"end", 1>>>>
  /\ Outcome = <<"ok", Bool(TRUE)>>

\* a handler that called the continuation twice
C36_WitnessTwice ==
  /\ IsWrapCall
  /\ phase = "idle"
  /\ args[1].b = "twice"
  /\ Outcome = <<"err", Multi>>

\* a handler that does not continue
C36_WitnessFalse ==
  /\ IsWrapCall
  /\ phase = "idle"
  /\ args[1].b = "stop"
  /\ Outcome = <<"ok", Bool(FALSE)>>


(* the states of a boundary *)

\* what follows the boundary in the outer chain can be seen to run
OuterSeen == Outside # <<>> \/ next = Terminal

\* C37: an invocation of errorBoundary(handler, S) either completes normally,
\* and then the handler is never called and the outer continuation is invoked
\* exactly when the protected sub-chain invoked its continuation, or fails,
\* and then the handler is called once and the outer continuation is invoked
\* exactly when the handler invokes its continuation, also when a protected
\* stage had invoked its continuation before it threw
C37_BoundaryStates ==
  (IsBoundary /\ OuterSeen) =>
    \A k \in Over :
      IF InnerThrows
        THEN /\ Len(Events(k, "handler")) = 1
             /\ Resumed(k) = (IF Handler = "resume" THEN 1 ELSE 0)
        ELSE /\ Events(k, "handler") = <<>>
             /\ Resumed(k) = (IF Ending = {} THEN 1 ELSE 0)

\* a protected stage invoked its continuation and then threw, the handler
\* returned: nothing of the outer chain ran
C37_Witness ==
  /\ IsBoundary
  /\ phase = "idle"
  /\ runs >= 1
  /\ Protected = <<Stage(1, "wrapThrow")>>
  /\ Handler = "swallow"
  /\ Outside # <<>>
  /\ Len(Events(1, "handler")) = 1
  /\ Resumed(1) = 0
  /\ Outcome = <<"ok", Und>>

\* normal completion, the sub-chain invoked its continuation: the outer
\* chain went on
C37_WitnessNormal ==
  /\ IsBoundary
  /\ phase = "idle"
  /\ runs >= 1
  /\ Protected = <<Stage(1, "wrap"), Stage(2, "wrap")>>
  /\ Outside # <<>>
  /\ Events(1, "handler") = <<>>
  /\ Resumed(1) = 1

\* normal completion, a protected stage did not continue
C37_WitnessHalt ==
  /\ IsBoundary
  /\ phase = "idle"
  /\ runs >= 1
  /\ Protected = <<Stage(1, "stop")>>
  /\ Outside # <<>>
  /\ Events(1, "handler") = <<>>
  /\ Resumed(1) = 0


(* overlapping invocations *)

IsOverlap == composed \notin {None, TypeError} /\ ops = 2

\* what the invocation with context c has logged in the first run
Seen(c) ==
  LET l == SelectSeq(log, LAMBDA e : e.run = 1 /\ e.ctx = c)
  IN [i \in 1..Len(l) |-> <<l[i].ev, l[i].id>>]

\* the stages that do not continue
Stopping == {i \in 1..Len(args) : args[i].b = "stop"}

\* the last stage to start, and the last to end
LastStarted ==
  IF Stopping = {} THEN Len(args) ELSE CHOOSE i \in Stopping : \A j \in Stopping : i <= j
LastEnded == IF Stopping = {} THEN Len(args) ELSE LastStarted - 1

\* what an invocation logs when it is the only one
Alone ==
  [i \in 1..LastStarted |-> <<"start", i>>] \o
  [i \in 1..LastEnded |-> <<"end", LastEnded + 1 - i>>]

\* C38: of two invocations of one composed handler, the second begun while
\* the first is under way, each starts and ends every stage as it would
\* alone, the terminal continuation runs once for each when all stages
\* continue, and no call of a continuation is rejected
C38_IndependentInvocations ==
  IsOverlap =>
    /\ \A a \in 1..Len(acts) : acts[a].val # Multi
    /\ \A c \in {1, MaxRuns + 1} :
         \A i \in 1..Len(args) : \A ev \in {"start", "end"} :
           Cardinality({j \in 1..Len(Seen(c)) : Seen(c)[j] = <<ev, i>>}) <= 1
    /\ runs >= 1 =>
         /\ Seen(1) = Alone
         /\ Seen(MaxRuns + 1) = Alone
         /\ Times(1, "terminal", 0) =
              (IF Stopping = {} /\ next = Terminal THEN 2 ELSE 0)

\* the second invocation began while the first waited for the timer of
\* stage 2; both ran the three stages
C38_Witness ==
  /\ IsOverlap
  /\ runs = 1
  /\ [i \in 1..Len(args) |-> args[i].b] = <<"wrap", "slow", "wrap">>
  /\ SubSeq(log, 1, 3) = <<Ev("start", 1, 1, 1), Ev("start", 2, 1, 1),
                           Ev("start", 1, MaxRuns + 1, 1)>>
  /\ Seen(1) = Alone
  /\ Seen(MaxRuns + 1) = Alone
  /\ Len(Alone) = 6


(* calls with a value that is no function *)

\* the call that was given the value
Refused == SelectSeq(args, LAMBDA t : t.k # "use")

IsNotCallable == composed = None /\ Len(Refused) = 1

\* the stages the first composer used, in order
Kept ==
  LET l == SelectSeq(args, LAMBDA t : t.k = "use" /\ t.id = 1)
  IN [i \in 1..Len(l) |-> l[i].xs[1].id]

\* the call failed and left everything as it was: no composer was made, and
\* invocations run the stages used and resolve
Untouched ==
  /\ Len(builders) = 1
  /\ \A k \in Over : Starts(k) = Kept
  /\ (phase = "idle" /\ runs >= 1) => Outcome = <<"ok", Und>>

\* C39: use, tap, fork, filter, drop or errorBoundary called with a value
\* that is not callable fails and leaves the composer's handler as it was: a
\* later run executes exactly the stages used, and resolves
C39_FailedUseAtomic == IsNotCallable => Untouched

\* what the code does: this holds for all of them but tap
C39_AtomicButTap == (IsNotCallable /\ Refused[1].k # "tap") => Untouched

\* and tap succeeds, makes its composer, and every later invocation runs the
\* functions given to tap up to the value and is rejected with the TypeError
C39_TapDeferred ==
  (IsNotCallable /\ Refused[1].k = "tap") =>
    /\ Len(builders) = 2
    /\ (phase = "idle" /\ runs >= 1) => Outcome = <<"err", TypeError>>

\* use(stage), then tap(5): the invocation ran the stage and was rejected
C39_WitnessTap ==
  /\ IsNotCallable
  /\ Len(args) = 2
  /\ args[2] = Called("tap", 1, <<Value(1)>>)
  /\ phase = "idle"
  /\ runs = 1
  /\ Starts(1) = <<1>>
  /\ Outcome = <<"err", TypeError>>


(* the boundary and what follows it *)

\* the event is of a protected stage, or of the handler
Inside(e) ==
  \/ e.ev \in {"handler", "alias"}
  \/ e.ev \in {"start", "mark", "end"} /\ \E i \in 1..Len(Protected) : Protected[i].id = e.id

\* the event is of what follows the boundary in the outer chain
Downstream40(e) ==
  \/ e.ev = "terminal"
  \/ e.ev = "start" /\ \E i \in 1..Len(Outside) : Outside[i].id = e.id

\* C40: in an invocation, errorBoundary invokes the outer continuation at
\* most once, and only when the protected sub-chain, with the code of its
\* stages that follows their continuation call, or else the handler, is
\* over: once something downstream has started, no protected stage and no
\* handler does anything more in that invocation
C40_BoundaryDefers ==
  IsBoundary =>
    /\ \A k \in 1..(runs + 1) : Resumed(k) <= 1
    /\ \A i \in 1..Len(log) : \A j \in (i + 1)..Len(log) :
         ~(log[i].run = log[j].run /\ Downstream40(log[i]) /\ Inside(log[j]))

\* both protected stages ended before the stage after the boundary started
C40_Witness ==
  /\ IsBoundary
  /\ phase = "idle"
  /\ runs = 1
  /\ Protected = <<Stage(1, "wrap"), Stage(2, "wrap")>>
  /\ Outside = <<Stage(3, "wrap")>>
  /\ Observed(1) = <<<<"start", 1>>, <<"start", 2>>, <<"end", 2>>, <<"end", 1>>,
                     <<"start", 3>>, <<"end", 3>>>>

\* a protected stage threw after its continuation returned, the handler
\* resumed: the stage after the boundary started after the handler, once
C40_WitnessHandler ==
  /\ IsBoundary
  /\ phase = "idle"
  /\ runs = 1
  /\ Protected = <<Stage(1, "wrapThrow")>>
  /\ Handler = "resume"
  /\ Len(Outside) = 1
  /\ Observed(1) = <<<<"start", 1>>, <<"handler", 1>>, <<"alias", 1>>,
                     <<"start", 2>>, <<"end", 2>>>>

===========================================================================
